---- MODULE Spec2Model ----
(***************************************************************************)
(* Model of aubo_controller/driver.py: the AUBOTrajectoryFollower (goal    *)
(* acceptance, cancellation, rebinding, the periodic update) together with *)
(* the pure trajectory helpers it uses (validation, joint reordering,      *)
(* cubic interpolation and sampling).                                      *)
(*                                                                         *)
(* Scalars are exact rationals <<n, d>> with d > 0 in lowest terms; the    *)
(* non-finite floats are <<1, 0>> (+inf), <<-1, 0>> (-inf) and <<0, 0>>    *)
(* (NaN).  Time is counted in half seconds by the variable clock, so that  *)
(* time.time() is the rational clock/2 seconds.                            *)
(*                                                                         *)
(* The handlers are modelled statement by statement: on_goal and on_cancel *)
(* take following_lock, set_robot and _update take no lock, so their       *)
(* statements interleave with every other thread's statements.             *)
(***************************************************************************)
EXTENDS Integers, Sequences, FiniteSets, TLC

(***************************************************************************)
(* Bounds of the model.                                                    *)
(***************************************************************************)
\* number of goal handles the transport delivers
NumGoals == 2
\* the clock runs from 0 to MaxTime half seconds
MaxTime == 2
\* number of set_robot calls of the orchestrator
MaxSetRobot == 1
\* number of on_cancel calls of the transport
MaxCancels == 1
\* number of calls (on_goal, on_cancel, set_robot) made from outside in all
MaxCalls == 3
\* calls of URConnection methods the orchestrator makes
MaxConnCalls == 3
\* recv calls that return bytes
MaxRecv == 2
\* waypoints of a trajectory given to sample_traj on its own
MaxPoints == 3

(***************************************************************************)
(* Rational arithmetic (the floats of the program, computed exactly).      *)
(***************************************************************************)
Abs(n) == IF n < 0 THEN -n ELSE n

RECURSIVE Gcd(_, _)
Gcd(a, b) == IF b = 0 THEN a ELSE Gcd(b, a % b)

Rat(n, d) ==
    LET s == IF d < 0 THEN -1 ELSE 1
        g == Gcd(Abs(n), Abs(d))
    IN  <<(s * n) \div g, (s * d) \div g>>

Num(n) == <<n, 1>>
RAdd(a, b) == Rat(a[1] * b[2] + b[1] * a[2], a[2] * b[2])
RSub(a, b) == Rat(a[1] * b[2] - b[1] * a[2], a[2] * b[2])
RMul(a, b) == Rat(a[1] * b[1], a[2] * b[2])
RDiv(a, b) == Rat(a[1] * b[2], a[2] * b[1])
RLt(a, b) == a[1] * b[2] < b[1] * a[2]
RLe(a, b) == a[1] * b[2] <= b[1] * a[2]
RAbs(a) == <<Abs(a[1]), a[2]>>

\* math.isinf, math.isnan
isinf(v) == v[2] = 0 /\ v[1] # 0
isnan(v) == v[2] = 0 /\ v[1] = 0

(***************************************************************************)
(* Program constants.                                                      *)
(***************************************************************************)
MAX_VELOCITY == 10
max_velocity == Num(MAX_VELOCITY)
JOINT_NAMES ==
    <<"shoulder_joint", "upperArm_joint", "foreArm_joint",
      "wrist1_joint", "wrist2_joint", "wrist3_joint">>
joint_names == JOINT_NAMES
\* STOP_DURATION = 0.5 of on_cancel
STOP_DURATION == Rat(1, 2)
\* [0] * 6
Zeros6 == [i \in 1..6 |-> Num(0)]
\* self.joint_goal_tolerances, and the [0.1]*6 and [0.05]*6 of _update
joint_goal_tolerances == [i \in 1..6 |-> Rat(1, 20)]
GoalPositionTolerances == [i \in 1..6 |-> Rat(1, 10)]
GoalVelocityTolerances == [i \in 1..6 |-> Rat(1, 20)]
\* self.first_waypoint_id = 10
InitialWaypointId == 10
\* self.goal_handle = None
NoGoal == 0

\* self.traj = None
NoneTraj == [isNone |-> TRUE]
Trajectory(names, pts) == [joint_names |-> names, points |-> pts]
Point(p, v, a, t) ==
    [positions |-> p, velocities |-> v, accelerations |-> a, time_from_start |-> t]

Range(s) == {s[i] : i \in DOMAIN s}
Last(s) == s[Len(s)]

(***************************************************************************)
(* The pure helpers of the driver.                                         *)
(***************************************************************************)
\* traj_is_finite(traj)
traj_is_finite(t) ==
    \A k \in DOMAIN t.points :
        /\ \A i \in DOMAIN t.points[k].positions :
              ~(isinf(t.points[k].positions[i]) \/ isnan(t.points[k].positions[i]))
        /\ \A i \in DOMAIN t.points[k].velocities :
              ~(isinf(t.points[k].velocities[i]) \/ isnan(t.points[k].velocities[i]))

\* has_limited_velocities(traj): math.fabs(v) > max_velocity rejects
has_limited_velocities(t) ==
    \A k \in DOMAIN t.points :
        \A i \in DOMAIN t.points[k].velocities :
            ~RLt(max_velocity, RAbs(t.points[k].velocities[i]))

\* has_velocities(traj)
has_velocities(t) ==
    \A k \in DOMAIN t.points :
        Len(t.points[k].velocities) = Len(t.points[k].positions)

\* within_tolerance(a_vec, b_vec, tol_vec): zip stops at the shortest vector
MinLen3(a, b, c) ==
    LET m == IF Len(a) < Len(b) THEN Len(a) ELSE Len(b)
    IN  IF m < Len(c) THEN m ELSE Len(c)
within_tolerance(a_vec, b_vec, tol_vec) ==
    \A i \in 1..MinLen3(a_vec, b_vec, tol_vec) :
        ~RLt(tol_vec[i], RAbs(RSub(a_vec[i], b_vec[i])))

\* list.index(j): position (from 1) of the first occurrence, 0 when absent
IndexOf(names, j) ==
    IF \E i \in DOMAIN names : names[i] = j
    THEN CHOOSE i \in DOMAIN names :
            names[i] = j /\ \A k \in DOMAIN names : names[k] = j => i <= k
    ELSE 0

\* order = [traj.joint_names.index(j) for j in joint_names]
JointOrder(t, names) == [k \in DOMAIN names |-> IndexOf(t.joint_names, names[k])]

\* reorder_traj_joints raises (ValueError, IndexError) exactly when this fails
ReorderDefined(t, names) ==
    LET order == JointOrder(t, names)
    IN  /\ \A k \in DOMAIN order : order[k] # 0
        /\ \A p \in DOMAIN t.points :
              /\ \A k \in DOMAIN order : order[k] <= Len(t.points[p].positions)
              /\ t.points[p].velocities # <<>> =>
                    \A k \in DOMAIN order : order[k] <= Len(t.points[p].velocities)
              /\ t.points[p].accelerations # <<>> =>
                    \A k \in DOMAIN order : order[k] <= Len(t.points[p].accelerations)

\* reorder_traj_joints(traj, joint_names): the trajectory it leaves in traj
reorder_traj_joints(t, names) ==
    LET order == JointOrder(t, names)
        pick(v) == IF v # <<>> THEN [k \in DOMAIN order |-> v[order[k]]] ELSE <<>>
    IN  Trajectory(names,
            [p \in DOMAIN t.points |->
                Point([k \in DOMAIN order |-> t.points[p].positions[order[k]]],
                      pick(t.points[p].velocities),
                      pick(t.points[p].accelerations),
                      t.points[p].time_from_start)])

\* a mutant of interp_cubic: the coefficient c takes p1's velocity twice
interp_cubic_steeper(p0, p1, t_abs) ==
    LET T == RSub(p1.time_from_start, p0.time_from_start)
        t == RSub(t_abs, p0.time_from_start)
        T2 == RMul(T, T)
        T3 == RMul(T2, T)
        t2 == RMul(t, t)
        t3 == RMul(t2, t)
        a(i) == p0.positions[i]
        b(i) == p0.velocities[i]
        c(i) == RDiv(RSub(RSub(RAdd(RMul(Num(-3), p0.positions[i]),
                                    RMul(Num(3), p1.positions[i])),
                               RMul(RMul(Num(2), T), p0.velocities[i])),
                          RMul(RMul(Num(2), T), p1.velocities[i])),
                     T2)
        d(i) == RDiv(RAdd(RAdd(RSub(RMul(Num(2), p0.positions[i]),
                                    RMul(Num(2), p1.positions[i])),
                               RMul(T, p0.velocities[i])),
                          RMul(T, p1.velocities[i])),
                     T3)
    IN  Point([i \in 1..6 |->
                  RAdd(RAdd(RAdd(a(i), RMul(b(i), t)), RMul(c(i), t2)), RMul(d(i), t3))],
              [i \in 1..6 |->
                  RAdd(RAdd(b(i), RMul(RMul(Num(2), c(i)), t)),
                       RMul(RMul(Num(3), d(i)), t2))],
              [i \in 1..6 |->
                  RAdd(RMul(Num(2), c(i)), RMul(RMul(Num(6), d(i)), t))],
              t_abs)

\* interp_cubic(p0, p1, t_abs); T is the segment's duration
interp_cubic(p0, p1, t_abs) ==
    LET T == RSub(p1.time_from_start, p0.time_from_start)
        t == RSub(t_abs, p0.time_from_start)
        T2 == RMul(T, T)
        T3 == RMul(T2, T)
        t2 == RMul(t, t)
        t3 == RMul(t2, t)
        a(i) == p0.positions[i]
        b(i) == p0.velocities[i]
        c(i) == RDiv(RSub(RSub(RAdd(RMul(Num(-3), p0.positions[i]),
                                    RMul(Num(3), p1.positions[i])),
                               RMul(RMul(Num(2), T), p0.velocities[i])),
                          RMul(T, p1.velocities[i])),
                     T2)
        d(i) == RDiv(RAdd(RAdd(RSub(RMul(Num(2), p0.positions[i]),
                                    RMul(Num(2), p1.positions[i])),
                               RMul(T, p0.velocities[i])),
                          RMul(T, p1.velocities[i])),
                     T3)
    IN  Point([i \in 1..6 |->
                  RAdd(RAdd(RAdd(a(i), RMul(b(i), t)), RMul(c(i), t2)), RMul(d(i), t3))],
              [i \in 1..6 |->
                  RAdd(RAdd(b(i), RMul(RMul(Num(2), c(i)), t)),
                       RMul(RMul(Num(3), d(i)), t2))],
              [i \in 1..6 |->
                  RAdd(RMul(Num(2), c(i)), RMul(RMul(Num(6), d(i)), t))],
              t_abs)

\* the index i (from 1) at which the while loop of sample_traj stops
RECURSIVE SegmentScan(_, _, _)
SegmentScan(t, time, i) ==
    IF RLt(t.points[i + 1].time_from_start, time)
    THEN SegmentScan(t, time, i + 1)
    ELSE i

\* sample_traj raises (AttributeError on None, IndexError on no points,
\* ZeroDivisionError on a segment of duration 0) exactly when this fails
SampleDefined(t, time) ==
    /\ t # NoneTraj
    /\ t.points # <<>>
    /\ \/ RLe(time, Num(0))
       \/ RLe(Last(t.points).time_from_start, time)
       \/ /\ Len(t.points) >= 2
          /\ LET i == SegmentScan(t, time, 1)
             IN  t.points[i + 1].time_from_start # t.points[i].time_from_start

\* sample_traj(traj, t)
sample_traj(t, time) ==
    IF RLe(time, Num(0)) THEN t.points[1]
    ELSE IF RLe(Last(t.points).time_from_start, time) THEN Last(t.points)
    ELSE LET i == SegmentScan(t, time, 1)
         IN  interp_cubic(t.points[i], t.points[i + 1], time)

(***************************************************************************)
(* The inputs: the goal messages the transport may deliver, and the joint  *)
(* states the arm may report.                                              *)
(***************************************************************************)
Goals == 1..NumGoals

Vec(x) == [i \in 1..6 |-> x]
Reversed(v) == [i \in 1..6 |-> v[7 - i]]
Ramp(k) == [i \in 1..6 |-> Num(i + k)]

\* canonical order, one waypoint at 0.5 s, no accelerations
GoalCanonical ==
    Trajectory(JOINT_NAMES, <<Point(Vec(Num(1)), Zeros6, <<>>, Rat(1, 2))>>)
\* joints in reverse order, waypoints at 1 s and 1.5 s, a velocity at the limit
GoalReversed ==
    Trajectory(Reversed(JOINT_NAMES),
        <<Point(Reversed(Ramp(0)), Reversed([Zeros6 EXCEPT ![1] = Num(MAX_VELOCITY)]),
                Zeros6, Num(1)),
          Point(Reversed(Ramp(1)), Zeros6, Zeros6, Rat(3, 2))>>)
\* one joint name that is not a joint of the arm
GoalWrongNames ==
    Trajectory([JOINT_NAMES EXCEPT ![6] = "elbow_joint"],
        <<Point(Vec(Num(1)), Zeros6, <<>>, Num(1))>>)
\* a NaN position, an infinite velocity
GoalNaN ==
    Trajectory(JOINT_NAMES,
        <<Point([Vec(Num(1)) EXCEPT ![3] = <<0, 0>>], Zeros6, <<>>, Num(1))>>)
GoalInf ==
    Trajectory(JOINT_NAMES,
        <<Point(Vec(Num(1)), [Zeros6 EXCEPT ![2] = <<-1, 0>>], <<>>, Num(1))>>)
\* a waypoint without velocities
GoalNoVelocities ==
    Trajectory(JOINT_NAMES, <<Point(Vec(Num(1)), <<>>, <<>>, Num(1))>>)
\* a velocity above the limit
GoalTooFast ==
    Trajectory(JOINT_NAMES,
        <<Point(Vec(Num(1)), [Zeros6 EXCEPT ![4] = Num(-(MAX_VELOCITY + 1))],
                <<>>, Num(1))>>)

GoalInputs ==
    {GoalCanonical, GoalReversed, GoalWrongNames, GoalNaN, GoalInf,
     GoalNoVelocities, GoalTooFast}

\* what robot.get_joint_states() may report: at rest at the zero pose, or at
\* rest 0.1 rad off the final waypoint of GoalCanonical
ArmStateAtRest == [position |-> Zeros6, velocity |-> Zeros6]
ArmStates ==
    {ArmStateAtRest,
     [position |-> Vec(Rat(11, 10)), velocity |-> Zeros6]}

Robots == {"None", "robot"}

(***************************************************************************)
(* State.                                                                  *)
(***************************************************************************)
VARIABLES
    clock,              \* time.time(), in half seconds
    started,            \* start() has run: the action server delivers goals
    joint_states,       \* the joint states of the arm while _update asks for them
    robot,              \* self.robot
    goal_handle,        \* self.goal_handle (NoGoal: None)
    traj,               \* self.traj (NoneTraj: None)
    traj_alias,         \* the handle whose message self.traj is (NoGoal: no handle's)
    traj_t0,            \* self.traj_t0, in seconds
    first_waypoint_id,  \* self.first_waypoint_id
    last_point_sent,    \* self.last_point_sent
    following_lock,     \* self.following_lock: <<"free", 0>> or its holder
    goal_msg,           \* goal_handle.get_goal().trajectory of every handle that
                        \* passed the checks of on_goal
    calls,              \* the outcome callbacks made on every handle, in order
    pc_goal,            \* position of on_goal(g)
    pc_cancel,          \* position of on_cancel(g)
    pc_set_robot,       \* position of the orchestrator in start or set_robot
    pc_update,          \* position of _update
    lk_now,             \* local now of the handler holding the lock
    lk_point0,          \* local point0 of on_cancel
    lk_point1,          \* local point1 of on_cancel
    sr_robot,           \* argument of the running set_robot
    up_now,             \* local now of _update
    up_last_point,      \* local last_point of _update
    n_set_robot,        \* set_robot calls made
    n_cancel,           \* on_cancel calls made
    robot_state,        \* URConnection.robot_state
    sock,               \* URConnection.__sock: "None" or "socket"
    thread,             \* URConnection.__thread: "None" or "thread"
    keep_running,       \* URConnection.__keep_running
    buf,                \* URConnection.__buf, a sequence of bytes
    last_state,         \* URConnection.last_state: "None" or a decoded packet
    prevent_programming,\* the global prevent_programming
    fatal,              \* times __on_packet has reached sys.exit(1), line 287
    pc_run,             \* position of the read thread in __run
    pc_conn,            \* position of the orchestrator in a URConnection method
    conn_ret,           \* where disconnect() returns to
    stream,             \* every byte recv has returned since connect()
    delivered,          \* the packets handed to __on_packet since connect()
    sent,               \* what sendall has written to the device, in order
    n_conn_calls,       \* URConnection methods called
    n_recv,             \* recv calls that returned bytes
    s_pc,               \* position of a caller of sample_traj
    s_traj,             \* the trajectory that caller passes
    s_time,             \* the time that caller passes
    s_result,           \* the point sample_traj has returned to that caller
    s_shares            \* the waypoint of s_traj that s_result is (0: none)

follower ==
    <<robot, goal_handle, traj, traj_alias, traj_t0, first_waypoint_id, last_point_sent>>
locals == <<lk_now, lk_point0, lk_point1, sr_robot, up_now, up_last_point>>
counters == <<n_set_robot, n_cancel>>

\* the calls made from outside so far
Delivered == {g \in Goals : pc_goal[g] # "idle"}
CallsMade == Cardinality(Delivered) + n_set_robot + n_cancel
follower_vars ==
    <<clock, started, joint_states, robot, goal_handle, traj, traj_alias, traj_t0,
      first_waypoint_id, last_point_sent, following_lock, goal_msg, calls,
      pc_goal, pc_cancel, pc_set_robot, pc_update, lk_now, lk_point0, lk_point1,
      sr_robot, up_now, up_last_point, n_set_robot, n_cancel>>
conn_vars ==
    <<robot_state, sock, thread, keep_running, buf, last_state, prevent_programming,
      fatal, pc_run, pc_conn, conn_ret, stream, delivered, sent, n_conn_calls,
      n_recv>>
sample_vars == <<s_pc, s_traj, s_time, s_result, s_shares>>
vars == <<follower_vars, conn_vars, sample_vars>>

\* time.time(): the clock is read, and shows the time that has passed since
\* it was last read
ReadClock == clock' \in clock..MaxTime
Now == Rat(clock', 2)
\* a local that holds nothing
NoPoint == [isNone |-> TRUE]
Free == <<"free", 0>>

\* the trajectory init_traj_from_robot builds
HoldTrajectory ==
    Trajectory(joint_names, <<Point(Zeros6, Zeros6, Zeros6, Num(0))>>)

\* handle.set_accepted() and the like: the callback is recorded on the handle
Call(g, cb) == [calls EXCEPT ![g] = Append(@, cb)]

\* the states of a URConnection, lines 216-219
DISCONNECTED == 0
CONNECTED == 1
READY_TO_PROGRAM == 2
EXECUTING == 3

\* URConnection.__init__, lines 221-228, and the global of line 35
ConnInit ==
    /\ robot_state = DISCONNECTED
    /\ sock = "None"
    /\ thread = "None"
    /\ keep_running = FALSE
    /\ buf = <<>>
    /\ last_state = "None"
    /\ prevent_programming = FALSE
    /\ fatal = 0
    /\ pc_run = "none"
    /\ pc_conn = "idle"
    /\ conn_ret = "idle"
    /\ stream = <<>>
    /\ delivered = <<>>
    /\ sent = <<>>
    /\ n_conn_calls = 0
    /\ n_recv = 0

\* AUBOTrajectoryFollower.__init__
FollowerInit ==
    /\ clock = 0
    /\ started = FALSE
    /\ joint_states = ArmStateAtRest
    /\ robot \in Robots
    /\ goal_handle = NoGoal
    /\ traj = NoneTraj
    /\ traj_alias = NoGoal
    /\ traj_t0 = Num(0)
    /\ first_waypoint_id = InitialWaypointId
    /\ last_point_sent = TRUE
    /\ following_lock = Free
    /\ goal_msg = [g \in Goals |-> NoneTraj]
    /\ calls = [g \in Goals |-> <<>>]
    /\ pc_goal = [g \in Goals |-> "idle"]
    /\ pc_cancel = [g \in Goals |-> "idle"]
    /\ pc_set_robot = "idle"
    /\ pc_update = "idle"
    /\ lk_now = Num(0)
    /\ lk_point0 = NoPoint
    /\ lk_point1 = NoPoint
    /\ sr_robot = "None"
    /\ up_now = Num(0)
    /\ up_last_point = NoPoint
    /\ n_set_robot = 0
    /\ n_cancel = 0

\* no caller of sample_traj on its own
SampleInit ==
    /\ s_pc = "choose"
    /\ s_traj = NoneTraj
    /\ s_time = Num(0)
    /\ s_result = NoPoint
    /\ s_shares = 0

\* the follower, a connection and a caller of sample_traj; Spec runs the
\* follower alone
Init == FollowerInit /\ ConnInit /\ SampleInit

(***************************************************************************)
(* on_goal(goal_handle), lines 434-489.                                    *)
(***************************************************************************)
\* the checks of lines 445-467 with the velocity limit of lines 461-467 left out
ValidationWithoutVelocityLimit(m) ==
    IF Range(m.joint_names) # Range(joint_names) THEN "incorrect joint names"
    ELSE IF ~traj_is_finite(m) THEN "Received a goal with infinites or NaNs"
    ELSE IF ~has_velocities(m) THEN "Received a goal without velocities"
    ELSE ""

\* the checks of lines 445-467, in order: "" when the goal passes them all
ValidationFailure(m) ==
    IF Range(m.joint_names) # Range(joint_names) THEN "incorrect joint names"
    ELSE IF ~traj_is_finite(m) THEN "Received a goal with infinites or NaNs"
    ELSE IF ~has_velocities(m) THEN "Received a goal without velocities"
    ELSE IF ~has_limited_velocities(m) THEN "velocities that are higher"
    ELSE ""

\* line 439: the condition under which on_goal rejects the goal as
\* "robot is not connected"
RejectsForRobot(r) == r # "None"

\* lines 434-470: the transport delivers goal g with message m; the handles
\* are numbered in the order of their delivery
OnGoalStart(g, m) ==
    /\ started
    /\ pc_goal[g] = "idle"
    /\ \A h \in Goals : h < g => pc_goal[h] # "idle"
    /\ CallsMade < MaxCalls
    /\ IF RejectsForRobot(robot) \/ ValidationFailure(m) # ""
       THEN /\ calls' = Call(g, "set_rejected")
            /\ pc_goal' = [pc_goal EXCEPT ![g] = "done"]
            /\ UNCHANGED goal_msg
       ELSE IF ~ReorderDefined(m, joint_names)
       THEN /\ pc_goal' = [pc_goal EXCEPT ![g] = "done"]
            /\ UNCHANGED <<goal_msg, calls>>
       ELSE /\ goal_msg' = [goal_msg EXCEPT ![g] = reorder_traj_joints(m, joint_names)]
            /\ pc_goal' = [pc_goal EXCEPT ![g] = "acquire"]
            /\ UNCHANGED calls
    /\ UNCHANGED <<clock, started, joint_states, follower, following_lock,
                   pc_cancel, pc_set_robot, pc_update, locals, counters>>
    /\ UNCHANGED <<conn_vars, sample_vars>>

\* lines 472-473: with self.following_lock; if self.goal_handle
OnGoalCheckActive(g) ==
    /\ pc_goal[g] = "acquire"
    /\ following_lock = Free
    /\ following_lock' = <<"on_goal", g>>
    /\ pc_goal' = [pc_goal EXCEPT ![g] =
                      IF goal_handle # NoGoal THEN "cancel_old" ELSE "sample"]
    /\ UNCHANGED <<clock, started, joint_states, follower, goal_msg,
                   calls, pc_cancel, pc_set_robot, pc_update, locals, counters>>
    /\ UNCHANGED <<conn_vars, sample_vars>>

\* line 475: self.goal_handle.set_canceled()
OnGoalCancelOld(g) ==
    /\ pc_goal[g] = "cancel_old"
    /\ IF goal_handle = NoGoal
       THEN /\ following_lock' = Free
            /\ pc_goal' = [pc_goal EXCEPT ![g] = "done"]
            /\ UNCHANGED calls
       ELSE /\ calls' = Call(goal_handle, "set_canceled")
            /\ pc_goal' = [pc_goal EXCEPT ![g] = "bump"]
            /\ UNCHANGED following_lock
    /\ UNCHANGED <<clock, started, joint_states, follower, goal_msg,
                   pc_cancel, pc_set_robot, pc_update, locals, counters>>
    /\ UNCHANGED <<conn_vars, sample_vars>>

\* the amount line 476 adds for the goal whose message is m
WaypointIdAdvance(m) == Len(m.points)

\* line 476: self.first_waypoint_id += len(self.goal_handle.get_goal().trajectory.points)
OnGoalBump(g) ==
    /\ pc_goal[g] = "bump"
    /\ IF goal_handle = NoGoal
       THEN /\ following_lock' = Free
            /\ pc_goal' = [pc_goal EXCEPT ![g] = "done"]
            /\ UNCHANGED first_waypoint_id
       ELSE /\ first_waypoint_id' =
                   first_waypoint_id + WaypointIdAdvance(goal_msg[goal_handle])
            /\ pc_goal' = [pc_goal EXCEPT ![g] = "clear"]
            /\ UNCHANGED following_lock
    /\ UNCHANGED <<clock, started, joint_states, robot, goal_handle, traj, traj_alias, traj_t0,
                   last_point_sent, goal_msg, calls,
                   pc_cancel, pc_set_robot, pc_update, locals, counters>>
    /\ UNCHANGED <<conn_vars, sample_vars>>

\* line 477: self.goal_handle = None
OnGoalClear(g) ==
    /\ pc_goal[g] = "clear"
    /\ goal_handle' = NoGoal
    /\ pc_goal' = [pc_goal EXCEPT ![g] = "sample"]
    /\ UNCHANGED <<clock, started, joint_states, robot, traj, traj_alias, traj_t0,
                   first_waypoint_id, last_point_sent, following_lock, goal_msg, calls,
                   pc_cancel, pc_set_robot, pc_update, locals, counters>>
    /\ UNCHANGED <<conn_vars, sample_vars>>

\* point0 of lines 481-482 (and of lines 498-499)
ContinuityPoint(t, t0, now) ==
    [sample_traj(t, RSub(now, t0)) EXCEPT !.time_from_start = Num(0)]

\* line 483: goal_handle.get_goal().trajectory.points.insert(0, point0)
Splice(m, point0) == [m EXCEPT !.points = <<point0>> \o @]

\* lines 480-483: now, point0, the insertion into the goal's points
OnGoalSample(g) ==
    /\ pc_goal[g] = "sample"
    /\ ReadClock
    /\ IF ~SampleDefined(traj, RSub(Now, traj_t0))
       THEN /\ following_lock' = Free
            /\ pc_goal' = [pc_goal EXCEPT ![g] = "done"]
            /\ UNCHANGED <<goal_msg, lk_now>>
       ELSE /\ lk_now' = Now
            /\ goal_msg' = [goal_msg EXCEPT ![g] =
                               Splice(@, ContinuityPoint(traj, traj_t0, Now))]
            /\ pc_goal' = [pc_goal EXCEPT ![g] = "set_t0"]
            /\ UNCHANGED following_lock
    /\ UNCHANGED <<started, joint_states, follower, calls,
                   pc_cancel, pc_set_robot, pc_update,
                   lk_point0, lk_point1, sr_robot, up_now, up_last_point, counters>>
    /\ UNCHANGED <<conn_vars, sample_vars>>

\* line 484: self.traj_t0 = now
OnGoalSetT0(g) ==
    /\ pc_goal[g] = "set_t0"
    /\ traj_t0' = lk_now
    /\ pc_goal' = [pc_goal EXCEPT ![g] = "install"]
    /\ UNCHANGED <<clock, started, joint_states, robot, goal_handle, traj, traj_alias,
                   first_waypoint_id, last_point_sent, following_lock, goal_msg, calls,
                   pc_cancel, pc_set_robot, pc_update, locals, counters>>
    /\ UNCHANGED <<conn_vars, sample_vars>>

\* line 487: self.goal_handle = goal_handle
OnGoalInstall(g) ==
    /\ pc_goal[g] = "install"
    /\ goal_handle' = g
    /\ pc_goal' = [pc_goal EXCEPT ![g] = "set_traj"]
    /\ UNCHANGED <<clock, started, joint_states, robot, traj, traj_alias, traj_t0,
                   first_waypoint_id, last_point_sent, following_lock, goal_msg, calls,
                   pc_cancel, pc_set_robot, pc_update, locals, counters>>
    /\ UNCHANGED <<conn_vars, sample_vars>>

\* line 488: self.traj = goal_handle.get_goal().trajectory
OnGoalSetTraj(g) ==
    /\ pc_goal[g] = "set_traj"
    /\ traj' = goal_msg[g]
    /\ traj_alias' = g
    /\ pc_goal' = [pc_goal EXCEPT ![g] = "accept"]
    /\ UNCHANGED <<clock, started, joint_states, robot, goal_handle, traj_t0,
                   first_waypoint_id, last_point_sent, following_lock, goal_msg, calls,
                   pc_cancel, pc_set_robot, pc_update, locals, counters>>
    /\ UNCHANGED <<conn_vars, sample_vars>>

\* line 489: self.goal_handle.set_accepted(), and the lock is released
OnGoalAccept(g) ==
    /\ pc_goal[g] = "accept"
    /\ calls' = IF goal_handle = NoGoal THEN calls ELSE Call(goal_handle, "set_accepted")
    /\ following_lock' = Free
    /\ lk_now' = Num(0)
    /\ pc_goal' = [pc_goal EXCEPT ![g] = "done"]
    /\ UNCHANGED <<clock, started, joint_states, follower, goal_msg,
                   pc_cancel, pc_set_robot, pc_update,
                   lk_point0, lk_point1, sr_robot, up_now, up_last_point, counters>>
    /\ UNCHANGED <<conn_vars, sample_vars>>

(***************************************************************************)
(* on_cancel(goal_handle), lines 491-512.                                  *)
(***************************************************************************)
\* line 493: if goal_handle == self.goal_handle; line 512 otherwise.  The
\* transport asks to cancel a goal it has delivered and that was not rejected
OnCancelStart(g) ==
    /\ started
    /\ pc_goal[g] = "done"
    /\ "set_rejected" \notin Range(calls[g])
    /\ pc_cancel[g] = "idle"
    /\ n_cancel < MaxCancels
    /\ CallsMade < MaxCalls
    /\ n_cancel' = n_cancel + 1
    /\ IF g = goal_handle
       THEN /\ pc_cancel' = [pc_cancel EXCEPT ![g] = "acquire"]
            /\ UNCHANGED calls
       ELSE /\ calls' = Call(g, "set_canceled")
            /\ UNCHANGED pc_cancel
    /\ UNCHANGED <<clock, started, joint_states, follower, following_lock, goal_msg,
                   pc_goal, pc_set_robot, pc_update, locals, n_set_robot>>
    /\ UNCHANGED <<conn_vars, sample_vars>>

\* on_cancel leaves its locked section, by return or by an exception
CancelLeaves(g) ==
    /\ following_lock' = Free
    /\ pc_cancel' = [pc_cancel EXCEPT ![g] = "idle"]
    /\ lk_now' = Num(0)
    /\ lk_point0' = NoPoint
    /\ lk_point1' = NoPoint

\* lines 494-499: with self.following_lock; now, point0
OnCancelPoint0(g) ==
    /\ pc_cancel[g] = "acquire"
    /\ following_lock = Free
    /\ ReadClock
    /\ IF ~SampleDefined(traj, RSub(Now, traj_t0))
       THEN CancelLeaves(g)
       ELSE /\ following_lock' = <<"on_cancel", g>>
            /\ lk_now' = Now
            /\ lk_point0' = ContinuityPoint(traj, traj_t0, Now)
            /\ pc_cancel' = [pc_cancel EXCEPT ![g] = "point1"]
            /\ UNCHANGED lk_point1
    /\ UNCHANGED <<started, joint_states, follower, goal_msg, calls,
                   pc_goal, pc_set_robot, pc_update,
                   sr_robot, up_now, up_last_point, counters>>
    /\ UNCHANGED <<conn_vars, sample_vars>>

\* point1 of lines 500-503
StopPoint(t, t0, now) ==
    [sample_traj(t, RAdd(RSub(now, t0), STOP_DURATION)) EXCEPT
        !.velocities = Zeros6,
        !.accelerations = Zeros6,
        !.time_from_start = STOP_DURATION]

\* lines 500-503: point1
OnCancelPoint1(g) ==
    /\ pc_cancel[g] = "point1"
    /\ IF ~SampleDefined(traj, RAdd(RSub(lk_now, traj_t0), STOP_DURATION))
       THEN CancelLeaves(g)
       ELSE /\ lk_point1' = StopPoint(traj, traj_t0, lk_now)
            /\ pc_cancel' = [pc_cancel EXCEPT ![g] = "set_t0"]
            /\ UNCHANGED <<following_lock, lk_now, lk_point0>>
    /\ UNCHANGED <<clock, started, joint_states, follower, goal_msg, calls,
                   pc_goal, pc_set_robot, pc_update,
                   sr_robot, up_now, up_last_point, counters>>
    /\ UNCHANGED <<conn_vars, sample_vars>>

\* line 504: self.traj_t0 = now
OnCancelSetT0(g) ==
    /\ pc_cancel[g] = "set_t0"
    /\ traj_t0' = lk_now
    /\ pc_cancel' = [pc_cancel EXCEPT ![g] = "new_traj"]
    /\ UNCHANGED <<clock, started, joint_states, robot, goal_handle, traj, traj_alias,
                   first_waypoint_id, last_point_sent, following_lock, goal_msg, calls,
                   pc_goal, pc_set_robot, pc_update, locals, counters>>
    /\ UNCHANGED <<conn_vars, sample_vars>>

\* lines 505-506: self.traj = JointTrajectory(), its joint_names
OnCancelNewTraj(g) ==
    /\ pc_cancel[g] = "new_traj"
    /\ traj' = Trajectory(joint_names, <<>>)
    /\ traj_alias' = NoGoal
    /\ pc_cancel' = [pc_cancel EXCEPT ![g] = "set_points"]
    /\ UNCHANGED <<clock, started, joint_states, robot, goal_handle, traj_t0,
                   first_waypoint_id, last_point_sent, following_lock, goal_msg, calls,
                   pc_goal, pc_set_robot, pc_update, locals, counters>>
    /\ UNCHANGED <<conn_vars, sample_vars>>

\* self.traj.points = pts: self.traj may be the very message of a goal handle
SetPoints(pts) ==
    /\ traj' = [traj EXCEPT !.points = pts]
    /\ goal_msg' = IF traj_alias = NoGoal THEN goal_msg
                   ELSE [goal_msg EXCEPT ![traj_alias] = [@ EXCEPT !.points = pts]]

\* the waypoints line 507 installs
StopPoints(point0, point1) == <<point0, point1>>

\* line 507: self.traj.points = [point0, point1]
OnCancelSetPoints(g) ==
    /\ pc_cancel[g] = "set_points"
    /\ IF traj = NoneTraj
       THEN /\ CancelLeaves(g)
            /\ UNCHANGED <<traj, goal_msg>>
       ELSE /\ SetPoints(StopPoints(lk_point0, lk_point1))
            /\ pc_cancel' = [pc_cancel EXCEPT ![g] = "cancel"]
            /\ UNCHANGED <<following_lock, lk_now, lk_point0, lk_point1>>
    /\ UNCHANGED <<clock, started, joint_states, robot, goal_handle, traj_alias, traj_t0,
                   first_waypoint_id, last_point_sent, calls,
                   pc_goal, pc_set_robot, pc_update,
                   sr_robot, up_now, up_last_point, counters>>
    /\ UNCHANGED <<conn_vars, sample_vars>>

\* line 509: self.goal_handle.set_canceled()
OnCancelCancel(g) ==
    /\ pc_cancel[g] = "cancel"
    /\ IF goal_handle = NoGoal
       THEN /\ CancelLeaves(g)
            /\ UNCHANGED calls
       ELSE /\ calls' = Call(goal_handle, "set_canceled")
            /\ pc_cancel' = [pc_cancel EXCEPT ![g] = "clear"]
            /\ UNCHANGED <<following_lock, lk_now, lk_point0, lk_point1>>
    /\ UNCHANGED <<clock, started, joint_states, follower, goal_msg,
                   pc_goal, pc_set_robot, pc_update,
                   sr_robot, up_now, up_last_point, counters>>
    /\ UNCHANGED <<conn_vars, sample_vars>>

\* line 510: self.goal_handle = None, and the lock is released
OnCancelClear(g) ==
    /\ pc_cancel[g] = "clear"
    /\ goal_handle' = NoGoal
    /\ CancelLeaves(g)
    /\ UNCHANGED <<clock, started, joint_states, robot, traj, traj_alias, traj_t0,
                   first_waypoint_id, last_point_sent, goal_msg, calls,
                   pc_goal, pc_set_robot, pc_update,
                   sr_robot, up_now, up_last_point, counters>>
    /\ UNCHANGED <<conn_vars, sample_vars>>

(***************************************************************************)
(* start(), set_robot(robot) and init_traj_from_robot(), lines 400-432,    *)
(* all run by the orchestrator thread.                                     *)
(***************************************************************************)
\* line 430: start() calls init_traj_from_robot
Start ==
    /\ ~started
    /\ pc_set_robot = "idle"
    /\ pc_set_robot' = "init_t0"
    /\ UNCHANGED <<clock, started, joint_states, follower, following_lock, goal_msg,
                   calls, pc_goal, pc_cancel, pc_update, locals, counters>>
    /\ UNCHANGED <<conn_vars, sample_vars>>

\* line 402: if self.goal_handle
SetRobotStart(r) ==
    /\ started
    /\ pc_set_robot = "idle"
    /\ n_set_robot < MaxSetRobot
    /\ CallsMade < MaxCalls
    /\ n_set_robot' = n_set_robot + 1
    /\ sr_robot' = r
    /\ pc_set_robot' = IF goal_handle # NoGoal THEN "cancel" ELSE "drop_traj"
    /\ UNCHANGED <<clock, started, joint_states, follower, following_lock, goal_msg,
                   calls, pc_goal, pc_cancel, pc_update,
                   lk_now, lk_point0, lk_point1, up_now, up_last_point, n_cancel>>
    /\ UNCHANGED <<conn_vars, sample_vars>>

\* set_robot leaves by return or by an exception
SetRobotReturns ==
    /\ pc_set_robot' = "idle"
    /\ sr_robot' = "None"

\* line 403: self.goal_handle.set_canceled()
SetRobotCancel ==
    /\ pc_set_robot = "cancel"
    /\ IF goal_handle = NoGoal
       THEN /\ SetRobotReturns
            /\ UNCHANGED calls
       ELSE /\ calls' = Call(goal_handle, "set_canceled")
            /\ pc_set_robot' = "clear"
            /\ UNCHANGED sr_robot
    /\ UNCHANGED <<clock, started, joint_states, follower, following_lock, goal_msg,
                   pc_goal, pc_cancel, pc_update,
                   lk_now, lk_point0, lk_point1, up_now, up_last_point, counters>>
    /\ UNCHANGED <<conn_vars, sample_vars>>

\* line 404: self.goal_handle = None
SetRobotClear ==
    /\ pc_set_robot = "clear"
    /\ goal_handle' = NoGoal
    /\ pc_set_robot' = "drop_traj"
    /\ UNCHANGED <<clock, started, joint_states, robot, traj, traj_alias, traj_t0,
                   first_waypoint_id, last_point_sent, following_lock, goal_msg, calls,
                   pc_goal, pc_cancel, pc_update, locals, counters>>
    /\ UNCHANGED <<conn_vars, sample_vars>>

\* line 405: self.traj = None
SetRobotDropTraj ==
    /\ pc_set_robot = "drop_traj"
    /\ traj' = NoneTraj
    /\ traj_alias' = NoGoal
    /\ pc_set_robot' = "bind"
    /\ UNCHANGED <<clock, started, joint_states, robot, goal_handle, traj_t0,
                   first_waypoint_id, last_point_sent, following_lock, goal_msg, calls,
                   pc_goal, pc_cancel, pc_update, locals, counters>>
    /\ UNCHANGED <<conn_vars, sample_vars>>

\* line 407: the condition under which set_robot calls init_traj_from_robot
ReinitialisesFor(r) == r # "None"

\* lines 406-407: self.robot = robot; if self.robot
SetRobotBind ==
    /\ pc_set_robot = "bind"
    /\ robot' = sr_robot
    /\ IF ReinitialisesFor(sr_robot)
       THEN /\ pc_set_robot' = "init_t0"
            /\ UNCHANGED sr_robot
       ELSE SetRobotReturns
    /\ UNCHANGED <<clock, started, joint_states, goal_handle, traj, traj_alias, traj_t0,
                   first_waypoint_id, last_point_sent, following_lock, goal_msg, calls,
                   pc_goal, pc_cancel, pc_update,
                   lk_now, lk_point0, lk_point1, up_now, up_last_point, counters>>
    /\ UNCHANGED <<conn_vars, sample_vars>>

\* line 419: self.traj_t0 = time.time()
InitTrajT0 ==
    /\ pc_set_robot = "init_t0"
    /\ ReadClock
    /\ traj_t0' = Now
    /\ pc_set_robot' = "init_traj"
    /\ UNCHANGED <<started, joint_states, robot, goal_handle, traj, traj_alias,
                   first_waypoint_id, last_point_sent, following_lock, goal_msg, calls,
                   pc_goal, pc_cancel, pc_update, locals, counters>>
    /\ UNCHANGED <<conn_vars, sample_vars>>

\* lines 420-421: self.traj = JointTrajectory(), its joint_names
InitTrajNew ==
    /\ pc_set_robot = "init_traj"
    /\ traj' = Trajectory(joint_names, <<>>)
    /\ traj_alias' = NoGoal
    /\ pc_set_robot' = "init_points"
    /\ UNCHANGED <<clock, started, joint_states, robot, goal_handle, traj_t0,
                   first_waypoint_id, last_point_sent, following_lock, goal_msg, calls,
                   pc_goal, pc_cancel, pc_update, locals, counters>>
    /\ UNCHANGED <<conn_vars, sample_vars>>

\* lines 422-427: self.traj.points = [the hold waypoint]; line 431 after start()
InitTrajPoints ==
    /\ pc_set_robot = "init_points"
    /\ IF traj = NoneTraj
       THEN UNCHANGED <<traj, goal_msg, started>>
       ELSE /\ SetPoints(HoldTrajectory.points)
            /\ started' = TRUE
    /\ SetRobotReturns
    /\ UNCHANGED <<clock, joint_states, robot, goal_handle, traj_alias, traj_t0,
                   first_waypoint_id, last_point_sent, following_lock, calls,
                   pc_goal, pc_cancel, pc_update,
                   lk_now, lk_point0, lk_point1, up_now, up_last_point, counters>>
    /\ UNCHANGED <<conn_vars, sample_vars>>

(***************************************************************************)
(* _update(event), lines 515-576, run by the timer thread.                 *)
(***************************************************************************)
\* line 516: the condition under which a tick does anything
UpdateRuns(r, t) == r = "None" /\ t # NoneTraj

\* _update leaves by return or by an exception
UpdateReturns ==
    /\ pc_update' = "idle"
    /\ up_now' = Num(0)
    /\ up_last_point' = NoPoint

\* lines 516-517: if not self.robot and self.traj; now = time.time()
UpdateStart ==
    /\ pc_update = "idle"
    /\ IF UpdateRuns(robot, traj)
       THEN /\ ReadClock
            /\ up_now' = Now
            /\ pc_update' = "compare"
       ELSE UNCHANGED <<clock, up_now, pc_update>>
    /\ UNCHANGED <<started, joint_states, follower, following_lock, goal_msg,
                   calls, pc_goal, pc_cancel, pc_set_robot,
                   lk_now, lk_point0, lk_point1, sr_robot, up_last_point, counters>>
    /\ UNCHANGED <<conn_vars, sample_vars>>

\* line 518: the elapsed time is within the trajectory's span
WithinSpan(now, t0, t) == RLe(RSub(now, t0), Last(t.points).time_from_start)

\* lines 518-561: which branch the tick takes.  Within the span (lines 519-534)
\* last_point_sent is cleared, the setpoint is sampled and published as joint
\* states (the servo command of line 532 is commented out).  Past the span with
\* the last point unsent (lines 541-544), state = last_point and state.position
\* raises AttributeError (a JointTrajectoryPoint has positions, no position):
\* lines 547-559, the send_servoj of the final waypoint and
\* last_point_sent = True, never run.
UpdateCompare ==
    /\ pc_update = "compare"
    /\ IF traj = NoneTraj \/ traj.points = <<>>
       THEN /\ UpdateReturns
            /\ UNCHANGED last_point_sent
       ELSE IF WithinSpan(up_now, traj_t0, traj)
       THEN /\ last_point_sent' = FALSE
            /\ UpdateReturns
       ELSE IF ~last_point_sent
       THEN /\ UpdateReturns
            /\ UNCHANGED last_point_sent
       ELSE /\ pc_update' = "check_goal"
            /\ up_now' = Num(0)
            /\ UNCHANGED <<up_last_point, last_point_sent>>
    /\ UNCHANGED <<clock, started, joint_states, robot, goal_handle, traj, traj_alias,
                   traj_t0, first_waypoint_id, following_lock, goal_msg, calls,
                   pc_goal, pc_cancel, pc_set_robot,
                   lk_now, lk_point0, lk_point1, sr_robot, counters>>
    /\ UNCHANGED <<conn_vars, sample_vars>>

\* line 562: if self.goal_handle
UpdateCheckGoal ==
    /\ pc_update = "check_goal"
    /\ IF goal_handle # NoGoal
       THEN /\ pc_update' = "last_point"
            /\ UNCHANGED <<up_now, up_last_point>>
       ELSE UpdateReturns
    /\ UNCHANGED <<clock, started, joint_states, follower, following_lock, goal_msg,
                   calls, pc_goal, pc_cancel, pc_set_robot,
                   lk_now, lk_point0, lk_point1, sr_robot, counters>>
    /\ UNCHANGED <<conn_vars, sample_vars>>

\* line 563: last_point = self.traj.points[-1]; the arm has the joint states
\* that line 564 is about to ask for
UpdateLastPoint ==
    /\ pc_update = "last_point"
    /\ IF traj = NoneTraj \/ traj.points = <<>>
       THEN /\ UpdateReturns
            /\ UNCHANGED joint_states
       ELSE /\ up_last_point' = Last(traj.points)
            /\ joint_states' \in ArmStates
            /\ pc_update' = "get_state"
            /\ UNCHANGED up_now
    /\ UNCHANGED <<clock, started, follower, following_lock, goal_msg,
                   calls, pc_goal, pc_cancel, pc_set_robot,
                   lk_now, lk_point0, lk_point1, sr_robot, counters>>
    /\ UNCHANGED <<conn_vars, sample_vars>>

\* lines 565-567: position_in_tol and velocity_in_tol
GoalReached(state, last_point) ==
    /\ within_tolerance(state.position, last_point.positions, GoalPositionTolerances)
    /\ within_tolerance(state.velocity, last_point.velocities, GoalVelocityTolerances)

\* lines 564-567: state = self.robot.get_joint_states() raises AttributeError
\* when self.robot is None; otherwise the tolerance test on the joint states
\* the arm has at that moment
UpdateGetState ==
    /\ pc_update = "get_state"
    /\ joint_states' = ArmStateAtRest
    /\ IF robot # "None" /\ GoalReached(joint_states, up_last_point)
       THEN /\ pc_update' = "succeed"
            /\ up_now' = Num(0)
            /\ up_last_point' = NoPoint
       ELSE UpdateReturns
    /\ UNCHANGED <<clock, started, follower, following_lock, goal_msg,
                   calls, pc_goal, pc_cancel, pc_set_robot,
                   lk_now, lk_point0, lk_point1, sr_robot, counters>>
    /\ UNCHANGED <<conn_vars, sample_vars>>

\* line 569: self.goal_handle.set_succeeded()
UpdateSucceed ==
    /\ pc_update = "succeed"
    /\ IF goal_handle = NoGoal
       THEN /\ UpdateReturns
            /\ UNCHANGED calls
       ELSE /\ calls' = Call(goal_handle, "set_succeeded")
            /\ pc_update' = "clear_goal"
            /\ UNCHANGED <<up_now, up_last_point>>
    /\ UNCHANGED <<clock, started, joint_states, follower, following_lock, goal_msg,
                   pc_goal, pc_cancel, pc_set_robot,
                   lk_now, lk_point0, lk_point1, sr_robot, counters>>
    /\ UNCHANGED <<conn_vars, sample_vars>>

\* line 570: self.goal_handle = None
UpdateClearGoal ==
    /\ pc_update = "clear_goal"
    /\ goal_handle' = NoGoal
    /\ UpdateReturns
    /\ UNCHANGED <<clock, started, joint_states, robot, traj, traj_alias, traj_t0,
                   first_waypoint_id, last_point_sent, following_lock, goal_msg, calls,
                   pc_goal, pc_cancel, pc_set_robot,
                   lk_now, lk_point0, lk_point1, sr_robot, counters>>
    /\ UNCHANGED <<conn_vars, sample_vars>>

(***************************************************************************)
(* The specification.                                                      *)
(***************************************************************************)
Next ==
    \/ \E g \in Goals : \E m \in GoalInputs : OnGoalStart(g, m)
    \/ \E g \in Goals : OnGoalCheckActive(g)
    \/ \E g \in Goals : OnGoalCancelOld(g)
    \/ \E g \in Goals : OnGoalBump(g)
    \/ \E g \in Goals : OnGoalClear(g)
    \/ \E g \in Goals : OnGoalSample(g)
    \/ \E g \in Goals : OnGoalSetT0(g)
    \/ \E g \in Goals : OnGoalInstall(g)
    \/ \E g \in Goals : OnGoalSetTraj(g)
    \/ \E g \in Goals : OnGoalAccept(g)
    \/ \E g \in Goals : OnCancelStart(g)
    \/ \E g \in Goals : OnCancelPoint0(g)
    \/ \E g \in Goals : OnCancelPoint1(g)
    \/ \E g \in Goals : OnCancelSetT0(g)
    \/ \E g \in Goals : OnCancelNewTraj(g)
    \/ \E g \in Goals : OnCancelSetPoints(g)
    \/ \E g \in Goals : OnCancelCancel(g)
    \/ \E g \in Goals : OnCancelClear(g)
    \/ Start
    \/ \E r \in Robots : SetRobotStart(r)
    \/ SetRobotCancel
    \/ SetRobotClear
    \/ SetRobotDropTraj
    \/ SetRobotBind
    \/ InitTrajT0
    \/ InitTrajNew
    \/ InitTrajPoints
    \/ UpdateStart
    \/ UpdateCompare
    \/ UpdateCheckGoal
    \/ UpdateLastPoint
    \/ UpdateGetState
    \/ UpdateSucceed
    \/ UpdateClearGoal

Spec == Init /\ [][Next]_vars

(***************************************************************************)
(* URConnection, lines 213-376: the bytes of the device.                   *)
(***************************************************************************)
\* the least buffer length at which line 360 looks for a packet
UNPACK_MINIMUM == 48
\* the type tag of a robot-state packet, the codes of the modes
ROBOT_STATE_TYPE == 16
MODE_RUNNING == 0
MODE_READY == 2
MODE_INITIALIZING == 3

Pad(n) == [i \in 1..n |-> 0]
\* what struct.pack("!IB", len, ptype) puts on the wire
Header(len, ptype) ==
    <<(len \div 16777216) % 256, (len \div 65536) % 256, (len \div 256) % 256,
      len % 256, ptype>>
\* a robot-state packet of len bytes (len >= 7) as the device sends it
Frame(len, enabled, mode) ==
    Header(len, ROBOT_STATE_TYPE) \o <<enabled, mode>> \o Pad(len - 7)

\* line 362: packet_length of struct.unpack_from("!IB", self.__buf)
packet_length(b) == b[1] * 16777216 + b[2] * 65536 + b[3] * 256 + b[4]

\* what one recv(4096) may return: a 60-byte packet and the first 10 bytes of
\* the next; the other 50 bytes of that one; two packets at once (the first
\* reports the robot disabled); a whole packet of 20 bytes; 48 bytes whose
\* length field is 0
ChunkPacketAndTen == Frame(60, 1, MODE_READY) \o SubSeq(Frame(60, 1, MODE_RUNNING), 1, 10)
ChunkRest == SubSeq(Frame(60, 1, MODE_RUNNING), 11, 60)
ChunkTwoPackets == Frame(48, 0, MODE_READY) \o Frame(48, 1, MODE_INITIALIZING)
ChunkShortPacket == Frame(20, 1, MODE_READY)
ChunkZeroLength == Header(0, ROBOT_STATE_TYPE) \o Pad(43)
Chunks ==
    {ChunkPacketAndTen, ChunkRest, ChunkTwoPackets, ChunkShortPacket, ChunkZeroLength}

(***************************************************************************)
(* URConnection.__on_packet, lines 277-342.                                *)
(***************************************************************************)
\* the names the module binds at its top level (lines 1-47, the defs and the
\* classes); RobotState, RobotMode, IOStates, DigitalIn, DigitalOut, Analog
\* and MULT_analog_robotstate are imported nowhere, and the assignment of
\* pub_io_states, line 44, is commented out
ModuleNames ==
    {"roslib", "time", "sys", "threading", "math", "copy", "datetime", "socket",
     "select", "struct", "traceback", "code", "optparse", "SocketServer",
     "rospy", "actionlib", "JointState", "FollowJointTrajectoryAction",
     "JointTrajectory", "JointTrajectoryPoint", "WrenchStamped", "Server",
     "MAX_VELOCITY", "MIN_PAYLOAD", "MAX_PAYLOAD", "PORT", "RT_PORT",
     "DEFAULT_REVERSE_PORT", "robot_hostname", "IO_SLEEP_TIME",
     "prevent_programming", "connected_robot", "connected_robot_lock",
     "connected_robot_cond", "last_joint_states", "last_joint_states_lock",
     "pub_joint_states", "pub_wrench", "JOINT_NAMES", "log", "RESET_PROGRAM",
     "URConnection", "AUBOTrajectoryFollower"}
Bound(name) == name \in ModuleNames

\* RobotState.unpack: the enable flag and the mode of a robot-state packet
UnpackDefined(packet) == Len(packet) >= 7
Unpack(packet) ==
    [real_robot_enabled |-> packet[6] # 0, robot_mode |-> packet[7]]

\* line 324: can_execute
can_execute(state) == state.robot_mode \in {MODE_READY, MODE_RUNNING}

\* lines 325-335: the state machine
PacketTransition(rs, ce) ==
    IF rs = CONNECTED THEN (IF ce THEN READY_TO_PROGRAM ELSE rs)
    ELSE IF rs = READY_TO_PROGRAM THEN (IF ~ce THEN CONNECTED ELSE rs)
    ELSE IF rs = EXECUTING THEN (IF ~ce THEN CONNECTED ELSE rs)
    ELSE rs

\* __on_packet(buf) called with robot_state rs and last_state ls: whether it
\* raises, and the robot_state and last_state it leaves.  Line 278 looks up
\* the global RobotState and raises NameError when nothing binds it; line 287
\* raises SystemExit in the read thread; lines 300-320 look up IOStates,
\* DigitalIn, DigitalOut, Analog, MULT_analog_robotstate and pub_io_states,
\* line 324 RobotMode
on_packet(packet, rs, ls) ==
    IF ~Bound("RobotState") \/ ~UnpackDefined(packet)
    THEN [raises |-> TRUE, fatal |-> 0, robot_state |-> rs, last_state |-> ls]
    ELSE LET state == Unpack(packet)
         IN  IF ~state.real_robot_enabled
             THEN [raises |-> TRUE, fatal |-> 1, robot_state |-> rs,
                   last_state |-> state]
             ELSE IF \E n \in {"IOStates", "DigitalIn", "DigitalOut", "Analog",
                               "MULT_analog_robotstate", "pub_io_states",
                               "RobotMode"} : ~Bound(n)
             THEN [raises |-> TRUE, fatal |-> 0, robot_state |-> rs,
                   last_state |-> state]
             ELSE [raises |-> FALSE, fatal |-> 0,
                   robot_state |-> PacketTransition(rs, can_execute(state)),
                   last_state |-> state]

(***************************************************************************)
(* URConnection.__run, lines 351-376: the read thread.                     *)
(***************************************************************************)
\* positions at which the read thread is over: __run returned, recv raised
\* socket.error, or an exception came out of __on_packet
Ended == {"returned", "raised_recv", "raised_on_packet"}

\* line 352: while self.__keep_running
RunTest ==
    /\ pc_run = "test"
    /\ pc_run' = IF keep_running THEN "select" ELSE "returned"
    /\ UNCHANGED <<robot_state, sock, thread, keep_running, buf, last_state,
                   prevent_programming, fatal, pc_conn, conn_ret, stream,
                   delivered, sent, n_conn_calls, n_recv>>
    /\ UNCHANGED <<follower_vars, sample_vars>>

\* a mutant of RunSelect: a select that returns nothing is followed by the
\* next turn of the loop
RunSelectPollsAgain ==
    /\ pc_run = "select"
    /\ pc_run' \in {"recv", "test"}
    /\ UNCHANGED <<robot_state, sock, thread, keep_running, buf, last_state,
                   prevent_programming, fatal, pc_conn, conn_ret, stream,
                   delivered, sent, n_conn_calls, n_recv>>
    /\ UNCHANGED <<follower_vars, sample_vars>>

\* lines 353-354 and 374: select returns the socket as readable, or returns
\* nothing once TIMEOUT has passed, which takes the thread to the else branch
\* of line 374
RunSelect ==
    /\ pc_run = "select"
    /\ pc_run' \in {"recv", "idle_disc"}
    /\ UNCHANGED <<robot_state, sock, thread, keep_running, buf, last_state,
                   prevent_programming, fatal, pc_conn, conn_ret, stream,
                   delivered, sent, n_conn_calls, n_recv>>
    /\ UNCHANGED <<follower_vars, sample_vars>>

\* lines 355-357 and 370: recv returns bytes, which are appended to the
\* buffer; or returns the empty string, the end of the stream; or raises
\* socket.error, which nothing in __run catches
RunRecv ==
    /\ pc_run = "recv"
    /\ \/ /\ n_recv < MaxRecv
          /\ \E more \in Chunks :
                /\ buf' = buf \o more
                /\ stream' = stream \o more
          /\ n_recv' = n_recv + 1
          /\ pc_run' = "extract"
       \/ /\ pc_run' \in {"disc", "raised_recv"}
          /\ UNCHANGED <<buf, stream, n_recv>>
    /\ UNCHANGED <<robot_state, sock, thread, keep_running, last_state,
                   prevent_programming, fatal, pc_conn, conn_ret, delivered,
                   sent, n_conn_calls>>
    /\ UNCHANGED <<follower_vars, sample_vars>>

\* lines 360-368: one turn of the extraction loop
RunExtract ==
    /\ pc_run = "extract"
    /\ IF Len(buf) >= UNPACK_MINIMUM /\ Len(buf) >= packet_length(buf)
       THEN LET n == packet_length(buf)
                packet == SubSeq(buf, 1, n)
                r == on_packet(packet, robot_state, last_state)
            IN  /\ buf' = SubSeq(buf, n + 1, Len(buf))
                /\ delivered' = Append(delivered, packet)
                /\ robot_state' = r.robot_state
                /\ last_state' = r.last_state
                /\ fatal' = fatal + r.fatal
                /\ pc_run' = IF r.raises THEN "raised_on_packet" ELSE "extract"
       ELSE /\ pc_run' = "test"
            /\ UNCHANGED <<buf, delivered, robot_state, last_state, fatal>>
    /\ UNCHANGED <<sock, thread, keep_running, prevent_programming, pc_conn,
                   conn_ret, stream, sent, n_conn_calls, n_recv>>
    /\ UNCHANGED <<follower_vars, sample_vars>>

\* lines 371 (after an empty read) and 375 (after a select that returned
\* nothing), __trigger_disconnected, line 271
RunTriggerDisconnected ==
    /\ pc_run \in {"disc", "idle_disc"}
    /\ robot_state' = DISCONNECTED
    /\ pc_run' = IF pc_run = "disc" THEN "stop" ELSE "idle_stop"
    /\ UNCHANGED <<sock, thread, keep_running, buf, last_state,
                   prevent_programming, fatal, pc_conn, conn_ret, stream,
                   delivered, sent, n_conn_calls, n_recv>>
    /\ UNCHANGED <<follower_vars, sample_vars>>

\* lines 372 and 376
RunStop ==
    /\ pc_run \in {"stop", "idle_stop"}
    /\ keep_running' = FALSE
    /\ pc_run' = "test"
    /\ UNCHANGED <<robot_state, sock, thread, buf, last_state,
                   prevent_programming, fatal, pc_conn, conn_ret, stream,
                   delivered, sent, n_conn_calls, n_recv>>
    /\ UNCHANGED <<follower_vars, sample_vars>>

(***************************************************************************)
(* The methods of URConnection, called one at a time by the orchestrator.  *)
(* A method that raises returns to its caller with the fields as they are. *)
(***************************************************************************)
\* line 231: connect() begins
ConnectStart ==
    /\ pc_conn = "idle"
    /\ n_conn_calls < MaxConnCalls
    /\ n_conn_calls' = n_conn_calls + 1
    /\ IF sock # "None"
       THEN pc_conn' = "disconnect_256" /\ conn_ret' = "connect_233"
       ELSE pc_conn' = "connect_233" /\ UNCHANGED conn_ret
    /\ UNCHANGED <<robot_state, sock, thread, keep_running, buf, last_state,
                   prevent_programming, fatal, pc_run, stream, delivered, sent,
                   n_recv>>
    /\ UNCHANGED <<follower_vars, sample_vars>>

\* line 233: the buffer is emptied; a new stream begins
ConnectResetBuf ==
    /\ pc_conn = "connect_233"
    /\ buf' = <<>>
    /\ stream' = <<>>
    /\ delivered' = <<>>
    /\ pc_conn' = "connect_234"
    /\ UNCHANGED <<robot_state, sock, thread, keep_running, last_state,
                   prevent_programming, fatal, pc_run, conn_ret, sent,
                   n_conn_calls, n_recv>>
    /\ UNCHANGED <<follower_vars, sample_vars>>

\* line 234
ConnectSetConnected ==
    /\ pc_conn = "connect_234"
    /\ robot_state' = CONNECTED
    /\ pc_conn' = "connect_235"
    /\ UNCHANGED <<sock, thread, keep_running, buf, last_state,
                   prevent_programming, fatal, pc_run, conn_ret, stream,
                   delivered, sent, n_conn_calls, n_recv>>
    /\ UNCHANGED <<follower_vars, sample_vars>>

\* line 235: socket.create_connection returns a socket, or raises
ConnectCreateConnection ==
    /\ pc_conn = "connect_235"
    /\ \/ sock' = "open" /\ pc_conn' = "connect_236"
       \/ pc_conn' = "idle" /\ UNCHANGED sock
    /\ UNCHANGED <<robot_state, thread, keep_running, buf, last_state,
                   prevent_programming, fatal, pc_run, conn_ret, stream,
                   delivered, sent, n_conn_calls, n_recv>>
    /\ UNCHANGED <<follower_vars, sample_vars>>

\* line 236
ConnectKeepRunning ==
    /\ pc_conn = "connect_236"
    /\ keep_running' = TRUE
    /\ pc_conn' = "connect_237"
    /\ UNCHANGED <<robot_state, sock, thread, buf, last_state,
                   prevent_programming, fatal, pc_run, conn_ret, stream,
                   delivered, sent, n_conn_calls, n_recv>>
    /\ UNCHANGED <<follower_vars, sample_vars>>

\* lines 237-239: the read thread starts
ConnectStartThread ==
    /\ pc_conn = "connect_237"
    /\ thread' = "URConnection"
    /\ pc_run' = "test"
    /\ pc_conn' = "idle"
    /\ UNCHANGED <<robot_state, sock, keep_running, buf, last_state,
                   prevent_programming, fatal, conn_ret, stream, delivered,
                   sent, n_conn_calls, n_recv>>
    /\ UNCHANGED <<follower_vars, sample_vars>>

\* lines 243-245: send_program() begins
SendProgramStart ==
    /\ pc_conn = "idle"
    /\ n_conn_calls < MaxConnCalls
    /\ n_conn_calls' = n_conn_calls + 1
    /\ pc_conn' = IF prevent_programming THEN "idle" ELSE "send_program_246"
    /\ UNCHANGED <<robot_state, sock, thread, keep_running, buf, last_state,
                   prevent_programming, fatal, pc_run, conn_ret, stream,
                   delivered, sent, n_recv>>
    /\ UNCHANGED <<follower_vars, sample_vars>>

\* line 246: the assert passes, or raises AssertionError
SendProgramAssert ==
    /\ pc_conn = "send_program_246"
    /\ pc_conn' = IF robot_state \in {READY_TO_PROGRAM, EXECUTING}
                  THEN "send_program_248" ELSE "idle"
    /\ UNCHANGED <<robot_state, sock, thread, keep_running, buf, last_state,
                   prevent_programming, fatal, pc_run, conn_ret, stream,
                   delivered, sent, n_conn_calls, n_recv>>
    /\ UNCHANGED <<follower_vars, sample_vars>>

\* line 248: sendall writes the program, or raises (AttributeError when
\* there is no socket, socket.error otherwise)
SendProgramSendall ==
    /\ pc_conn = "send_program_248"
    /\ \/ /\ sock # "None"
          /\ sent' = Append(sent, "program")
          /\ pc_conn' = "send_program_249"
       \/ pc_conn' = "idle" /\ UNCHANGED sent
    /\ UNCHANGED <<robot_state, sock, thread, keep_running, buf, last_state,
                   prevent_programming, fatal, pc_run, conn_ret, stream,
                   delivered, n_conn_calls, n_recv>>
    /\ UNCHANGED <<follower_vars, sample_vars>>

\* line 249
SendProgramSetExecuting ==
    /\ pc_conn = "send_program_249"
    /\ robot_state' = EXECUTING
    /\ pc_conn' = "idle"
    /\ UNCHANGED <<sock, thread, keep_running, buf, last_state,
                   prevent_programming, fatal, pc_run, conn_ret, stream,
                   delivered, sent, n_conn_calls, n_recv>>
    /\ UNCHANGED <<follower_vars, sample_vars>>

\* line 252: send_reset_program() begins; sendall writes RESET_PROGRAM, or
\* raises
SendResetProgramSendall ==
    /\ pc_conn = "idle"
    /\ n_conn_calls < MaxConnCalls
    /\ n_conn_calls' = n_conn_calls + 1
    /\ \/ /\ sock # "None"
          /\ sent' = Append(sent, "RESET_PROGRAM")
          /\ pc_conn' = "send_reset_program_253"
       \/ pc_conn' = "idle" /\ UNCHANGED sent
    /\ UNCHANGED <<robot_state, sock, thread, keep_running, buf, last_state,
                   prevent_programming, fatal, pc_run, conn_ret, stream,
                   delivered, n_recv>>
    /\ UNCHANGED <<follower_vars, sample_vars>>

\* line 253
SendResetProgramSetReady ==
    /\ pc_conn = "send_reset_program_253"
    /\ robot_state' = READY_TO_PROGRAM
    /\ pc_conn' = "idle"
    /\ UNCHANGED <<sock, thread, keep_running, buf, last_state,
                   prevent_programming, fatal, pc_run, conn_ret, stream,
                   delivered, sent, n_conn_calls, n_recv>>
    /\ UNCHANGED <<follower_vars, sample_vars>>

\* disconnect() is called by the orchestrator
DisconnectStart ==
    /\ pc_conn = "idle"
    /\ n_conn_calls < MaxConnCalls
    /\ n_conn_calls' = n_conn_calls + 1
    /\ pc_conn' = "disconnect_256"
    /\ conn_ret' = "idle"
    /\ UNCHANGED <<robot_state, sock, thread, keep_running, buf, last_state,
                   prevent_programming, fatal, pc_run, stream, delivered, sent,
                   n_recv>>
    /\ UNCHANGED <<follower_vars, sample_vars>>

\* line 256: if self.__thread
DisconnectTestThread ==
    /\ pc_conn = "disconnect_256"
    /\ pc_conn' = IF thread # "None" THEN "disconnect_257" ELSE "disconnect_260"
    /\ UNCHANGED <<robot_state, sock, thread, keep_running, buf, last_state,
                   prevent_programming, fatal, pc_run, conn_ret, stream,
                   delivered, sent, n_conn_calls, n_recv>>
    /\ UNCHANGED <<follower_vars, sample_vars>>

\* line 257
DisconnectClearKeepRunning ==
    /\ pc_conn = "disconnect_257"
    /\ keep_running' = FALSE
    /\ pc_conn' = "disconnect_258"
    /\ UNCHANGED <<robot_state, sock, thread, buf, last_state,
                   prevent_programming, fatal, pc_run, conn_ret, stream,
                   delivered, sent, n_conn_calls, n_recv>>
    /\ UNCHANGED <<follower_vars, sample_vars>>

\* a mutant of DisconnectJoin: line 258 does not wait for the read thread
DisconnectWithoutJoin ==
    /\ pc_conn = "disconnect_258"
    /\ thread' = "None"
    /\ pc_conn' = "disconnect_260"
    /\ UNCHANGED <<robot_state, sock, keep_running, buf, last_state,
                   prevent_programming, fatal, pc_run, conn_ret, stream,
                   delivered, sent, n_conn_calls, n_recv>>
    /\ UNCHANGED <<follower_vars, sample_vars>>

\* lines 258-259: join returns once the read thread is over
DisconnectJoin ==
    /\ pc_conn = "disconnect_258"
    /\ pc_run \in Ended
    /\ thread' = "None"
    /\ pc_run' = "none"
    /\ pc_conn' = "disconnect_260"
    /\ UNCHANGED <<robot_state, sock, keep_running, buf, last_state,
                   prevent_programming, fatal, conn_ret, stream, delivered,
                   sent, n_conn_calls, n_recv>>
    /\ UNCHANGED <<follower_vars, sample_vars>>

\* lines 260-262
DisconnectCloseSock ==
    /\ pc_conn = "disconnect_260"
    /\ sock' = "None"
    /\ pc_conn' = "disconnect_263"
    /\ UNCHANGED <<robot_state, thread, keep_running, buf, last_state,
                   prevent_programming, fatal, pc_run, conn_ret, stream,
                   delivered, sent, n_conn_calls, n_recv>>
    /\ UNCHANGED <<follower_vars, sample_vars>>

\* line 263
DisconnectClearLastState ==
    /\ pc_conn = "disconnect_263"
    /\ last_state' = "None"
    /\ pc_conn' = "disconnect_264"
    /\ UNCHANGED <<robot_state, sock, thread, keep_running, buf,
                   prevent_programming, fatal, pc_run, conn_ret, stream,
                   delivered, sent, n_conn_calls, n_recv>>
    /\ UNCHANGED <<follower_vars, sample_vars>>

\* line 264, and the return to the caller
DisconnectSetDisconnected ==
    /\ pc_conn = "disconnect_264"
    /\ robot_state' = DISCONNECTED
    /\ pc_conn' = conn_ret
    /\ conn_ret' = "idle"
    /\ UNCHANGED <<sock, thread, keep_running, buf, last_state,
                   prevent_programming, fatal, pc_run, stream, delivered, sent,
                   n_conn_calls, n_recv>>
    /\ UNCHANGED <<follower_vars, sample_vars>>

\* main, line 661: the parameter prevent_programming is read into the global
SetPreventProgramming ==
    /\ pc_conn = "idle"
    /\ n_conn_calls < MaxConnCalls
    /\ prevent_programming' = ~prevent_programming
    /\ UNCHANGED <<robot_state, sock, thread, keep_running, buf, last_state,
                   fatal, pc_run, pc_conn, conn_ret, stream, delivered, sent,
                   n_conn_calls, n_recv>>
    /\ UNCHANGED <<follower_vars, sample_vars>>

RunStep ==
    \/ RunTest
    \/ RunSelect
    \/ RunRecv
    \/ RunExtract
    \/ RunTriggerDisconnected
    \/ RunStop

DisconnectStep ==
    \/ DisconnectTestThread
    \/ DisconnectClearKeepRunning
    \/ DisconnectJoin
    \/ DisconnectCloseSock
    \/ DisconnectClearLastState
    \/ DisconnectSetDisconnected

NextConn ==
    \/ RunStep
    \/ ConnectStart
    \/ ConnectResetBuf
    \/ ConnectSetConnected
    \/ ConnectCreateConnection
    \/ ConnectKeepRunning
    \/ ConnectStartThread
    \/ SendProgramStart
    \/ SendProgramAssert
    \/ SendProgramSendall
    \/ SendProgramSetExecuting
    \/ SendResetProgramSendall
    \/ SendResetProgramSetReady
    \/ DisconnectStart
    \/ DisconnectStep
    \/ SetPreventProgramming

\* the connection alone: the follower is bound to no robot and is not called
InitConn == Init /\ robot = "None"
SpecConn == InitConn /\ [][NextConn]_vars

\* the threads are scheduled: the read thread takes its next step, select
\* returns when TIMEOUT has passed at the latest, and disconnect() goes on
SpecConnFair == SpecConn /\ WF_vars(RunStep) /\ WF_vars(DisconnectStep)

(***************************************************************************)
(* sample_traj(traj, t) on its own, lines 166-178: a caller passes it any  *)
(* trajectory and any time, and then writes to the point it got, as        *)
(* on_goal and on_cancel do.                                               *)
(***************************************************************************)
\* the waypoints of the trajectories passed: two positions and two
\* velocities for each joint, at a whole number of half seconds
Waypoints ==
    {Point(Ramp(p), Vec(Num(v)), Zeros6, Rat(k, 2)) :
        p \in {0, 2}, v \in {-1, 1}, k \in 0..MaxTime}
\* any 1 to MaxPoints waypoints, in any order of their times
SampleTrajectories ==
    {Trajectory(joint_names, pts) :
        pts \in UNION {[1..n -> Waypoints] : n \in 1..MaxPoints}}
\* the times passed: quarters of a second from before the start to past the
\* longest span
SampleTimes == {Rat(k, 4) : k \in -1..(2 * MaxTime + 8)}

\* a mutant of sample_traj_shares: lines 169 and 172 return the waypoint
\* itself
sample_traj_returns_waypoint(t, time) ==
    IF RLe(time, Num(0)) THEN 1
    ELSE IF RLe(Last(t.points).time_from_start, time) THEN Len(t.points)
    ELSE 0

\* the waypoint of traj that is the object sample_traj returns: none, as
\* copy.deepcopy (lines 169, 172) and interp_cubic (line 162) make a new one
sample_traj_shares(t, time) == 0

\* the caller picks the arguments
SampleChoose ==
    /\ s_pc = "choose"
    /\ s_traj' \in SampleTrajectories
    /\ s_time' \in SampleTimes
    /\ s_pc' = "call"
    /\ UNCHANGED <<s_result, s_shares>>
    /\ UNCHANGED <<follower_vars, conn_vars>>

\* lines 166-178: sample_traj returns a point, or raises
SampleCall ==
    /\ s_pc = "call"
    /\ IF SampleDefined(s_traj, s_time)
       THEN /\ s_result' = sample_traj(s_traj, s_time)
            /\ s_shares' = sample_traj_shares(s_traj, s_time)
            /\ s_pc' = "returned"
       ELSE /\ s_pc' = "raised"
            /\ UNCHANGED <<s_result, s_shares>>
    /\ UNCHANGED <<s_traj, s_time>>
    /\ UNCHANGED <<follower_vars, conn_vars>>

\* what a write to the returned point does to the trajectory
WriteThrough(t, shares, point) ==
    IF shares = 0 THEN t ELSE [t EXCEPT !.points[shares] = point]

\* the caller writes to the point: line 482 (and 499), or lines 501-503
SampleWrite ==
    /\ s_pc = "returned"
    /\ \/ s_result' = [s_result EXCEPT !.time_from_start = Num(0)]
       \/ s_result' = [s_result EXCEPT !.velocities = Zeros6,
                                       !.accelerations = Zeros6,
                                       !.time_from_start = STOP_DURATION]
    /\ s_traj' = WriteThrough(s_traj, s_shares, s_result')
    /\ s_pc' = "written"
    /\ UNCHANGED <<s_time, s_shares>>
    /\ UNCHANGED <<follower_vars, conn_vars>>

\* interp_cubic(p0, p1, t_abs) raises ZeroDivisionError (T**2, line 157)
\* exactly when this fails
InterpDefined(p0, p1) == p1.time_from_start # p0.time_from_start

\* lines 147-162: a caller passes interp_cubic the first two waypoints of its
\* trajectory and a time
InterpCall ==
    /\ s_pc = "call"
    /\ Len(s_traj.points) >= 2
    /\ IF InterpDefined(s_traj.points[1], s_traj.points[2])
       THEN /\ s_result' = interp_cubic(s_traj.points[1], s_traj.points[2], s_time)
            /\ s_pc' = "interpolated"
       ELSE /\ s_pc' = "raised"
            /\ UNCHANGED s_result
    /\ UNCHANGED <<s_traj, s_time, s_shares>>
    /\ UNCHANGED <<follower_vars, conn_vars>>

NextSample ==
    \/ SampleChoose
    \/ SampleCall
    \/ SampleWrite

\* sample_traj alone: the follower is not started, the connection not used
SpecSample == Init /\ [][NextSample]_vars

\* sample_traj and interp_cubic, each called on its own
SpecInterp == Init /\ [][NextSample \/ InterpCall]_vars

(***************************************************************************)
(* Vocabulary of the properties.                                           *)
(***************************************************************************)
Count(g, cb) == Cardinality({i \in DOMAIN calls[g] : calls[g][i] = cb})
Marked(g, cb) == Count(g, cb) > 0
Terminal == {"set_rejected", "set_canceled", "set_succeeded"}

\* this step makes the callback cb on handle g
Marks(g, cb) == calls'[g] = Append(calls[g], cb)
\* this step delivers goal g to on_goal
Delivers(g) == pc_goal[g] = "idle" /\ pc_goal'[g] # "idle"
\* this step is a statement of on_cancel(g)
CancelStep(g) ==
    \/ pc_cancel'[g] # pc_cancel[g]
    \/ n_cancel' # n_cancel /\ calls'[g] # calls[g]

(***************************************************************************)
(* C1: whenever on_goal is invoked while no connection is bound, the goal  *)
(* is marked rejected and is not installed as the active goal; no goal is  *)
(* ever marked accepted while the Follower is unbound.                     *)
(***************************************************************************)
C1_RejectsWhenUnbound ==
    [][\A g \in Goals :
          /\ Delivers(g) /\ robot = "None" =>
                Marks(g, "set_rejected") /\ pc_goal'[g] = "done"
          /\ Marks(g, "set_accepted") => robot # "None"]_vars

(***************************************************************************)
(* C2: every goal on_goal has returned from received exactly one of        *)
(* set_accepted and set_rejected; an accepted goal received at most one of *)
(* set_canceled and set_succeeded; no callback is made on a handle that    *)
(* has already received set_rejected, set_canceled or set_succeeded.       *)
(***************************************************************************)
C2_OneOutcomePerGoal ==
    \A g \in Goals :
        /\ pc_goal[g] = "done" =>
              Count(g, "set_accepted") + Count(g, "set_rejected") = 1
        /\ Count(g, "set_canceled") + Count(g, "set_succeeded") <= 1
        /\ \A i, j \in DOMAIN calls[g] : i < j => calls[g][i] \notin Terminal

(***************************************************************************)
(* C3: a statement of on_cancel(g) executed while another goal is the      *)
(* active goal leaves that goal active and not marked canceled, and leaves *)
(* the active trajectory and its start time as they are; it marks no       *)
(* handle but g.                                                           *)
(***************************************************************************)
C3_StaleCancelHasNoSideEffect ==
    [][\A g \in Goals :
          CancelStep(g) /\ goal_handle \notin {g, NoGoal} =>
              /\ goal_handle' = goal_handle
              /\ traj' = traj
              /\ traj_t0' = traj_t0
              /\ \A h \in Goals \ {g} : calls'[h] = calls[h]]_vars

(***************************************************************************)
(* C4: on_goal, having found another goal active at line 473, marks that   *)
(* goal canceled (line 475), advances first_waypoint_id by the number of   *)
(* points of that goal's trajectory (line 476) and clears the slot (line   *)
(* 477) before it installs the new goal; a goal is installed only into an  *)
(* empty slot, so no two goals are active at once.                         *)
(***************************************************************************)
C4_ReplacesActiveGoal ==
    [][\A g \in Goals :
          /\ pc_goal[g] = "cancel_old" /\ pc_goal'[g] # "cancel_old" =>
                /\ goal_handle \in Goals \ {g}
                /\ Marks(goal_handle, "set_canceled")
                /\ pc_goal'[g] = "bump"
          /\ pc_goal[g] = "bump" /\ pc_goal'[g] # "bump" =>
                /\ goal_handle \in Goals \ {g}
                /\ first_waypoint_id' =
                      first_waypoint_id + Len(goal_msg[goal_handle].points)
                /\ pc_goal'[g] = "clear"
          /\ pc_goal[g] = "clear" /\ pc_goal'[g] # "clear" =>
                goal_handle' = NoGoal /\ pc_goal'[g] = "sample"
          /\ goal_handle' = g /\ goal_handle # g => goal_handle = NoGoal]_vars

(***************************************************************************)
(* C5: on_goal prepends to the goal's waypoints exactly one waypoint, with *)
(* time_from_start 0, equal to the sample of the trajectory active until   *)
(* then at now - traj_t0; when it marks the goal accepted, the active      *)
(* trajectory is that spliced trajectory in canonical joint order and      *)
(* traj_t0 is the now of the sample.                                       *)
(***************************************************************************)
C5_SplicesContinuityPoint ==
    [][\A g \in Goals :
          /\ pc_goal[g] = "sample" /\ pc_goal'[g] = "set_t0" =>
                /\ lk_now' = Now
                /\ goal_msg'[g].points =
                      <<[sample_traj(traj, RSub(Now, traj_t0)) EXCEPT
                            !.time_from_start = Num(0)]>> \o goal_msg[g].points
          /\ Marks(g, "set_accepted") =>
                /\ traj = goal_msg[g]
                /\ traj.joint_names = joint_names
                /\ traj_t0 = lk_now]_vars

(***************************************************************************)
(* C6: on_cancel of the goal that is active at line 493 runs to its last   *)
(* statement; when it returns, the active trajectory is exactly point0,    *)
(* the sample of the old trajectory at now with time_from_start 0, and     *)
(* point1, the positions sampled STOP_DURATION ahead with zero velocities  *)
(* and accelerations at time_from_start STOP_DURATION; traj_t0 is now, the *)
(* goal has been marked canceled and no goal is active.                    *)
(***************************************************************************)
C6_CancelDeceleratesToStop ==
    [][\A g \in Goals :
          /\ pc_cancel[g] = "acquire" /\ pc_cancel'[g] # "acquire" =>
                /\ pc_cancel'[g] = "point1"
                /\ lk_point0' = [sample_traj(traj, RSub(Now, traj_t0)) EXCEPT
                                    !.time_from_start = Num(0)]
          /\ pc_cancel[g] = "point1" /\ pc_cancel'[g] # "point1" =>
                /\ pc_cancel'[g] = "set_t0"
                /\ lk_point1'.positions =
                      sample_traj(traj, RAdd(RSub(lk_now, traj_t0), STOP_DURATION)).positions
                /\ lk_point1'.velocities = Zeros6
                /\ lk_point1'.accelerations = Zeros6
                /\ lk_point1'.time_from_start = STOP_DURATION
          /\ pc_cancel[g] # "idle" /\ pc_cancel'[g] = "idle" =>
                /\ pc_cancel[g] = "clear"
                /\ traj' # NoneTraj
                /\ traj'.points = <<lk_point0, lk_point1>>
                /\ traj_t0' = lk_now
                /\ Marked(g, "set_canceled")
                /\ goal_handle' = NoGoal]_vars

(***************************************************************************)
(* C7: a delivered goal whose joint-name set is not the canonical set, or  *)
(* that has a non-finite position or velocity, a waypoint whose velocity   *)
(* count differs from its position count, or a velocity above max_velocity *)
(* in magnitude, is marked rejected, and the step that marks a goal        *)
(* rejected leaves robot, goal_handle, traj, traj_t0, first_waypoint_id    *)
(* and last_point_sent as they are.                                        *)
(***************************************************************************)
Finite(x) == x[2] # 0
Defective(m) ==
    \/ {m.joint_names[i] : i \in DOMAIN m.joint_names} #
          {JOINT_NAMES[i] : i \in DOMAIN JOINT_NAMES}
    \/ \E k \in DOMAIN m.points :
          \/ \E i \in DOMAIN m.points[k].positions : ~Finite(m.points[k].positions[i])
          \/ \E i \in DOMAIN m.points[k].velocities : ~Finite(m.points[k].velocities[i])
          \/ Len(m.points[k].velocities) # Len(m.points[k].positions)
          \/ \E i \in DOMAIN m.points[k].velocities :
                LET v == m.points[k].velocities[i]
                IN  Finite(v) /\ (v[1] > MAX_VELOCITY * v[2] \/ -v[1] > MAX_VELOCITY * v[2])
C7_RejectionChangesNothing ==
    [][\A g \in Goals :
          /\ Marks(g, "set_rejected") => follower' = follower
          /\ Delivers(g) =>
                \/ Marks(g, "set_rejected") /\ pc_goal'[g] = "done"
                \/ \E m \in GoalInputs :
                      /\ ~Defective(m)
                      /\ ReorderDefined(m, joint_names)
                      /\ goal_msg'[g] = reorder_traj_joints(m, joint_names)
                      /\ calls'[g] = calls[g]]_vars
\* a goal has been rejected for its message (no robot was ever bound) while
\* another goal was active, and that goal is active still
C7_Witness ==
    /\ n_set_robot = 0
    /\ robot = "None"
    /\ \E g \in Goals :
          /\ calls[g] = <<"set_rejected">>
          /\ goal_handle \in Goals \ {g}
          /\ traj = goal_msg[goal_handle]

(***************************************************************************)
(* C8: a tick that is past the span of an accepted goal's trajectory with  *)
(* the last point sent, finds that goal still active and the arm within    *)
(* 0.1 rad and 0.05 rad/s of the final waypoint marks the goal succeeded   *)
(* and then clears the active goal.                                        *)
(***************************************************************************)
C8_ReachedGoalSucceeds ==
    [][/\ (/\ pc_update = "get_state"
           /\ pc_update' # "get_state"
           /\ goal_handle # NoGoal
           /\ Marked(goal_handle, "set_accepted")
           /\ Range(calls[goal_handle]) \cap Terminal = {}
           /\ traj = goal_msg[goal_handle]
           /\ up_last_point = Last(traj.points)
           /\ GoalReached(joint_states, up_last_point)) => pc_update' = "succeed"
       /\ pc_update = "succeed" /\ pc_update' # "succeed" /\ goal_handle # NoGoal =>
             Marks(goal_handle, "set_succeeded") /\ pc_update' = "clear_goal"
       /\ pc_update = "clear_goal" /\ pc_update' # "clear_goal" =>
             goal_handle' = NoGoal]_vars

(***************************************************************************)
(* C9: a tick that finds the elapsed time past the span of the active      *)
(* trajectory while last_point_sent is false leaves last_point_sent true.  *)
(***************************************************************************)
C9_LastPointGetsSent ==
    [][(/\ pc_update = "compare"
        /\ pc_update' # "compare"
        /\ traj # NoneTraj
        /\ traj.points # <<>>
        /\ ~WithinSpan(up_now, traj_t0, traj)
        /\ ~last_point_sent) => last_point_sent']_vars

(***************************************************************************)
(* C10: when set_robot(c) returns, c is the bound robot, no goal is        *)
(* active, the Follower has a trajectory, and for c = None that trajectory *)
(* is the single zero-velocity hold waypoint at time_from_start 0.         *)
(***************************************************************************)
C10_SetRobotLeavesATrajectory ==
    [][(started /\ pc_set_robot # "idle" /\ pc_set_robot' = "idle") =>
          /\ robot' = sr_robot
          /\ goal_handle' = NoGoal
          /\ traj' # NoneTraj
          /\ traj'.points # <<>>
          /\ sr_robot = "None" => traj' = HoldTrajectory]_vars

(***************************************************************************)
(* C11: once the follower is started, every step that writes goal_handle,  *)
(* traj or traj_t0 is a step of the handler that holds following_lock, and *)
(* while a tick of _update is between its first and its last statement no *)
(* other thread changes goal_handle, traj or traj_t0.                      *)
(***************************************************************************)
WritesFollower == goal_handle' # goal_handle \/ traj' # traj \/ traj_t0' # traj_t0
C11_FollowerStateUnderLock ==
    [][started =>
          /\ WritesFollower =>
                \E g \in Goals :
                    \/ following_lock = <<"on_goal", g>> /\ pc_goal'[g] # pc_goal[g]
                    \/ following_lock = <<"on_cancel", g>> /\ pc_cancel'[g] # pc_cancel[g]
          /\ pc_update # "idle" /\ pc_update' = pc_update => ~WritesFollower]_vars

\* a packet whose enable flag, as Unpack reads it, is false
Disabled(packet) == UnpackDefined(packet) /\ ~Unpack(packet).real_robot_enabled
DisabledSeen == \E i \in 1..Len(delivered) : Disabled(delivered[i])

(***************************************************************************)
(* C12: the step that hands __on_packet a packet whose enable flag is      *)
(* false runs the fatal path, once; and once such a packet has been handed *)
(* over, the fatal path is not run again, nothing more is written to the   *)
(* device and robot_state does not become EXECUTING.                       *)
(***************************************************************************)
C12_DisabledRobotIsFatal ==
    [][/\ (Len(delivered') > Len(delivered) /\ Disabled(Last(delivered'))) =>
             fatal' = fatal + 1
       /\ DisabledSeen =>
             /\ fatal' = fatal
             /\ sent' = sent
             /\ robot_state' = EXECUTING => robot_state = EXECUTING]_vars

\* the step hands a packet to __on_packet
Hands == Len(delivered') > Len(delivered)

(***************************************************************************)
(* C13: the step that hands __on_packet a robot-state packet of an enabled *)
(* robot takes CONNECTED to READY_TO_PROGRAM when the mode is Ready or     *)
(* Running, takes READY_TO_PROGRAM and EXECUTING to CONNECTED when the     *)
(* mode is neither, and leaves robot_state as it is otherwise.             *)
(***************************************************************************)
C13_PacketStateMachine ==
    [][Hands =>
          LET packet == Last(delivered')
              ready == Unpack(packet).robot_mode \in {MODE_READY, MODE_RUNNING}
          IN  (UnpackDefined(packet) /\ ~Disabled(packet)) =>
                 robot_state' =
                    CASE robot_state = CONNECTED /\ ready -> READY_TO_PROGRAM
                      [] robot_state = READY_TO_PROGRAM /\ ~ready -> CONNECTED
                      [] robot_state = EXECUTING /\ ~ready -> CONNECTED
                      [] OTHER -> robot_state]_vars

(***************************************************************************)
(* C14: send_program writes the program only while programming is not      *)
(* prevented and robot_state is READY_TO_PROGRAM or EXECUTING, and no step *)
(* of any thread takes robot_state to EXECUTING from a state other than    *)
(* READY_TO_PROGRAM.                                                       *)
(***************************************************************************)
C14_ExecutingOnlyFromReady ==
    [][/\ (pc_conn = "send_program_248" /\ sent' # sent) =>
             ~prevent_programming /\ robot_state \in {READY_TO_PROGRAM, EXECUTING}
       /\ (robot_state' = EXECUTING /\ robot_state # EXECUTING) =>
             robot_state = READY_TO_PROGRAM]_vars

(***************************************************************************)
(* C15: a recv that raises socket.error ends the read thread with          *)
(* robot_state = DISCONNECTED, and after a recv that returns the empty     *)
(* string the thread sets robot_state to DISCONNECTED and then clears      *)
(* keep_running.                                                           *)
(***************************************************************************)
C15_ReadFailureDisconnects ==
    [][/\ (pc_run = "recv" /\ pc_run' = "raised_recv") => robot_state' = DISCONNECTED
       /\ (pc_run = "disc" /\ pc_run' # "disc") =>
             robot_state' = DISCONNECTED /\ pc_run' = "stop"
       /\ (pc_run = "stop" /\ pc_run' # "stop") => ~keep_running']_vars

(***************************************************************************)
(* C16: while robot_state is DISCONNECTED and no read thread is running,   *)
(* the only step that changes robot_state is line 234 of connect().        *)
(***************************************************************************)
C16_DisconnectedUntilConnect ==
    [][(/\ robot_state = DISCONNECTED
        /\ pc_run \in Ended \cup {"none"}
        /\ robot_state' # DISCONNECTED) => pc_conn = "connect_234"]_vars

(***************************************************************************)
(* C17: whenever no method of the connection is in progress, a robot_state *)
(* other than DISCONNECTED comes with a socket that connect() has opened.  *)
(***************************************************************************)
C17_StateImpliesSocket ==
    (pc_conn = "idle" /\ robot_state # DISCONNECTED) => sock # "None"

\* the orchestrator is inside disconnect()
InDisconnect ==
    pc_conn \in {"disconnect_256", "disconnect_257", "disconnect_258",
                 "disconnect_260", "disconnect_263", "disconnect_264"}

(***************************************************************************)
(* C18: disconnect() returns: with the threads scheduled, a call of        *)
(* disconnect() that is in progress comes to its end.  Once line 257 has   *)
(* cleared keep_running the read thread begins no further select.  When    *)
(* disconnect() returns, the socket is closed, robot_state is              *)
(* DISCONNECTED, last_state is None and no read thread exists, whatever    *)
(* bytes have been received.                                               *)
(***************************************************************************)
C18_DisconnectTerminates ==
    /\ [][/\ (pc_conn = "disconnect_264" /\ pc_conn' # "disconnect_264") =>
                /\ sock' = "None"
                /\ robot_state' = DISCONNECTED
                /\ last_state' = "None"
                /\ thread' = "None"
                /\ pc_run' = "none"
          /\ (pc_conn = "disconnect_258" /\ pc_run = "test") => pc_run' # "select"]_vars
    /\ InDisconnect ~> ~InDisconnect

\* disconnect() has returned on a connection whose read thread had received
\* bytes from the device
C18_Witness ==
    /\ pc_conn = "idle"
    /\ stream # <<>>
    /\ sock = "None"
    /\ thread = "None"
    /\ pc_run = "none"
    /\ robot_state = DISCONNECTED

\* the frames at the front of a byte stream that are there in full, each as
\* long as its 4-byte length field says, and the bytes that follow them
RECURSIVE CompleteFrames(_)
CompleteFrames(s) ==
    IF Len(s) >= 4 /\ packet_length(s) > 0 /\ Len(s) >= packet_length(s)
    THEN <<SubSeq(s, 1, packet_length(s))>>
            \o CompleteFrames(SubSeq(s, packet_length(s) + 1, Len(s)))
    ELSE <<>>
RECURSIVE Remainder(_)
Remainder(s) ==
    IF Len(s) >= 4 /\ packet_length(s) > 0 /\ Len(s) >= packet_length(s)
    THEN Remainder(SubSeq(s, packet_length(s) + 1, Len(s)))
    ELSE s

(***************************************************************************)
(* C19: whenever the read thread is not inside the extraction loop (and    *)
(* has not died in it), the packets handed to __on_packet since connect()  *)
(* are the complete frames at the front of the bytes received since then,  *)
(* and the buffer holds the bytes that follow them.                        *)
(***************************************************************************)
C19_DeliversCompleteFrames ==
    pc_run \notin {"extract", "raised_on_packet"} =>
        /\ delivered = CompleteFrames(stream)
        /\ buf = Remainder(stream)

(***************************************************************************)
(* C20: when the extraction loop finds a length field of 0 at the head of  *)
(* a buffer of at least 48 bytes, extraction ends, robot_state becomes     *)
(* DISCONNECTED and the read thread is on its way out: it is over, or it   *)
(* has cleared keep_running.                                               *)
(***************************************************************************)
C20_ZeroLengthDisconnects ==
    [][(/\ pc_run = "extract"
        /\ pc_run' # "extract"
        /\ Len(buf) >= UNPACK_MINIMUM
        /\ packet_length(buf) = 0) =>
          /\ robot_state' = DISCONNECTED
          /\ pc_run' \in Ended \/ ~keep_running']_vars

(***************************************************************************)
(* C21: once the follower is started, whenever set_robot is not in         *)
(* progress and following_lock is free, the follower has a trajectory with *)
(* at least one waypoint whose first waypoint is at time_from_start 0, and *)
(* sample_traj is defined on it at every elapsed time.                     *)
(***************************************************************************)
C21_TrajectoryAlwaysSampleable ==
    (started /\ pc_set_robot = "idle" /\ following_lock = Free) =>
        /\ traj # NoneTraj
        /\ traj.points # <<>>
        /\ traj.points[1].time_from_start = Num(0)
        /\ \A time \in SampleTimes : SampleDefined(traj, time)

\* the caller's trajectory begins at time_from_start 0
StartsAtZero(t) == t.points[1].time_from_start = Num(0)
\* the step in which sample_traj returns or raises
SampleReturns == s_pc = "call" /\ s_pc' # "call"

(***************************************************************************)
(* C22, as stated: for a trajectory whose first waypoint is at 0,          *)
(* sample_traj returns a point equal to the first waypoint when t <= 0 and *)
(* a point equal to the last waypoint when t >= the last waypoint's time,  *)
(* and neither the call nor a write to the returned point changes the      *)
(* trajectory.                                                             *)
(***************************************************************************)
C22_ClampsAsStated ==
    [][/\ (SampleReturns /\ StartsAtZero(s_traj)) =>
             /\ RLe(s_time, Num(0)) =>
                   s_pc' = "returned" /\ s_result' = s_traj.points[1]
             /\ RLe(Last(s_traj.points).time_from_start, s_time) =>
                   s_pc' = "returned" /\ s_result' = Last(s_traj.points)
       /\ s_pc \in {"call", "returned"} => s_traj' = s_traj]_vars

(***************************************************************************)
(* C22, amended: for a trajectory whose first waypoint is at 0,            *)
(* sample_traj returns a point equal to the first waypoint when t <= 0 and *)
(* a point equal to the last waypoint when t > 0 and t >= the last         *)
(* waypoint's time, and neither the call nor a write to the returned point *)
(* changes the trajectory.                                                 *)
(***************************************************************************)
C22_ClampsToEndpoints ==
    [][/\ (SampleReturns /\ StartsAtZero(s_traj)) =>
             /\ RLe(s_time, Num(0)) =>
                   s_pc' = "returned" /\ s_result' = s_traj.points[1]
             /\ (RLt(Num(0), s_time)
                    /\ RLe(Last(s_traj.points).time_from_start, s_time)) =>
                   s_pc' = "returned" /\ s_result' = Last(s_traj.points)
       /\ s_pc \in {"call", "returned"} => s_traj' = s_traj]_vars

\* the caller has written to the point it got for a time past the end of a
\* trajectory of several waypoints, and the last waypoint is not what the
\* caller's point now is
C22_Witness ==
    /\ s_pc = "written"
    /\ Len(s_traj.points) >= 2
    /\ StartsAtZero(s_traj)
    /\ RLt(Num(0), s_time)
    /\ RLe(Last(s_traj.points).time_from_start, s_time)
    /\ s_result # Last(s_traj.points)

\* the waypoint times of a trajectory go up strictly
Increasing(t) ==
    \A i \in 1..(Len(t.points) - 1) :
        RLt(t.points[i].time_from_start, t.points[i + 1].time_from_start)

(***************************************************************************)
(* C23: for a segment of duration T > 0, interp_cubic at the time of the   *)
(* segment's first waypoint returns that waypoint's positions and          *)
(* velocities, and at the time of its second waypoint that waypoint's      *)
(* positions and velocities; and sample_traj at the time of an interior    *)
(* waypoint of a trajectory with increasing times returns that waypoint's  *)
(* positions and velocities.                                               *)
(***************************************************************************)
C23_CubicMeetsWaypoints ==
    [][/\ (s_pc = "call" /\ s_pc' = "interpolated") =>
             LET p0 == s_traj.points[1]
                 p1 == s_traj.points[2]
             IN  RLt(p0.time_from_start, p1.time_from_start) =>
                    /\ s_time = p0.time_from_start =>
                          /\ s_result'.positions = p0.positions
                          /\ s_result'.velocities = p0.velocities
                    /\ s_time = p1.time_from_start =>
                          /\ s_result'.positions = p1.positions
                          /\ s_result'.velocities = p1.velocities
       /\ (s_pc = "call" /\ s_pc' = "returned" /\ Increasing(s_traj)) =>
             \A k \in 2..(Len(s_traj.points) - 1) :
                 s_time = s_traj.points[k].time_from_start =>
                    /\ s_result'.positions = s_traj.points[k].positions
                    /\ s_result'.velocities = s_traj.points[k].velocities]_vars

\* interp_cubic has returned for the end of a segment of positive duration
\* along which the positions and the velocities change
C23_Witness ==
    /\ s_pc = "interpolated"
    /\ RLt(s_traj.points[1].time_from_start, s_traj.points[2].time_from_start)
    /\ s_time = s_traj.points[2].time_from_start
    /\ s_traj.points[1].positions # s_traj.points[2].positions
    /\ s_traj.points[1].velocities # s_traj.points[2].velocities
    /\ s_result.positions = s_traj.points[2].positions

\* the waypoint times of a trajectory do not go down
NonDecreasing(t) ==
    \A i \in 1..(Len(t.points) - 1) :
        RLe(t.points[i].time_from_start, t.points[i + 1].time_from_start)
\* segment [i, i+1] of t holds the time: time_i <= time < time_(i+1)
Holds(t, i, time) ==
    /\ RLe(t.points[i].time_from_start, time)
    /\ RLt(time, t.points[i + 1].time_from_start)

(***************************************************************************)
(* C24: for a trajectory that begins at 0 with waypoint times that do not  *)
(* go down, and a time t with 0 < t < the last waypoint's time,            *)
(* sample_traj returns interp_cubic over the one segment [i, i+1] with     *)
(* time_i <= t < time_(i+1), also when t is the time of an interior        *)
(* waypoint.                                                               *)
(***************************************************************************)
C24_InterpolatesHalfOpenSegment ==
    [][(/\ SampleReturns
        /\ StartsAtZero(s_traj)
        /\ NonDecreasing(s_traj)
        /\ RLt(Num(0), s_time)
        /\ RLt(s_time, Last(s_traj.points).time_from_start)) =>
          /\ s_pc' = "returned"
          /\ \E i \in 1..(Len(s_traj.points) - 1) : Holds(s_traj, i, s_time)
          /\ \A i \in 1..(Len(s_traj.points) - 1) :
                Holds(s_traj, i, s_time) =>
                   s_result' = interp_cubic(s_traj.points[i], s_traj.points[i + 1],
                                            s_time)]_vars

(***************************************************************************)
(* C25: in every state, a goal that has been marked accepted is the        *)
(* follower's active goal or has been marked canceled or succeeded.        *)
(***************************************************************************)
C25_NoAcceptedGoalDropped ==
    \A g \in Goals :
        Marked(g, "set_accepted") =>
            \/ goal_handle = g
            \/ Marked(g, "set_canceled")
            \/ Marked(g, "set_succeeded")

(***************************************************************************)
(* C26: a select of the read thread that returns nothing within TIMEOUT    *)
(* takes the thread to line 375: with the socket still open, it sets       *)
(* robot_state to DISCONNECTED, then clears keep_running, and the loop     *)
(* ends at its next test; with the threads scheduled, the thread returns.  *)
(***************************************************************************)
C26_IdleLinkDisconnects ==
    /\ [][/\ (pc_run = "select" /\ pc_run' \notin {"select", "recv"}) =>
                pc_run' = "idle_disc" /\ sock' = "open"
          /\ (pc_run = "idle_disc" /\ pc_run' # "idle_disc") =>
                /\ robot_state' = DISCONNECTED
                /\ sock' = "open"
                /\ pc_run' = "idle_stop"
          /\ (pc_run = "idle_stop" /\ pc_run' # "idle_stop") =>
                ~keep_running' /\ sock' = "open" /\ pc_run' = "test"
          /\ (pc_run = "test" /\ ~keep_running /\ pc_run' # "test") =>
                pc_run' = "returned"]_vars
    /\ (pc_run = "idle_disc") ~> (pc_run = "returned")

\* the read thread has set DISCONNECTED after a select that returned
\* nothing, on an open socket from which nothing was ever read
C26_Witness ==
    /\ pc_run = "idle_stop"
    /\ robot_state = DISCONNECTED
    /\ sock = "open"
    /\ stream = <<>>
    /\ n_recv = 0

====
